---- MODULE Spec2Model ----
(***************************************************************************)
(* Browser keystore of KeychainPGP (web/src/lib/keystore.ts) and its       *)
(* caller KeyManager.svelte.  The repository carries two drafts of the     *)
(* keystore: one keeps the AES-GCM wrapping key in a module variable       *)
(* (cachedWrappingKey, non-extractable), the other serialises it to        *)
(* sessionStorage (extractable).  The variable `variant` selects the       *)
(* draft a behaviour runs.                                                 *)
(*                                                                         *)
(* Every exported async function is modelled as a call in a slot of        *)
(* `calls`; each action is the code between two suspension points          *)
(* (await of WebCrypto or of an IndexedDB request/transaction).            *)
(***************************************************************************)
EXTENDS Integers, Sequences, FiniteSets, TLC

\* ------------------------------------------------------------------ bounds
MaxOps == 3        \* events of one behaviour: calls started, page loads, edits
MaxCalls == 2      \* calls pending at the same time
MaxScans == 4      \* QR codes handed to one scan
MaxImports == 3    \* keys handed to the import and generate commands
MaxTime == 3       \* ticks of the passphrase cache's clock
MaxTtl == 2        \* longest time-to-live of the passphrase cache, in ticks

\* ------------------------------------------------------- program constants
TagLength == 16    \* AES-GCM authentication tag, bytes
IvLength == 12     \* new Uint8Array(12)
KeyLength == 32    \* { name: "AES-GCM", length: 256 }

\* ------------------------------------------------------------- JS values
Null == [t |-> "null"]
Str(u) == [t |-> "string", u |-> u]
Uint8Array(b) == [t |-> "Uint8Array", b |-> b]
CryptoKey(id, extractable) == [t |-> "CryptoKey", id |-> id, extractable |-> extractable]
Iv(n) == [t |-> "iv", n |-> n]
RawKey(id) == [t |-> "rawkey", id |-> id]
\* output of crypto.subtle.encrypt({name: "AES-GCM", iv}, key, plaintext):
\* ciphertext || tag, bound to the key and the iv it was made with
Gcm(k, iv, pt) == [t |-> "gcm", k |-> k, iv |-> iv, pt |-> pt, intact |-> TRUE]

ByteLength(x) ==
  CASE x.t = "Uint8Array" -> Len(x.b)
    [] x.t = "gcm" -> Len(x.pt) + TagLength
    [] x.t = "iv" -> IvLength
    [] x.t = "rawkey" -> KeyLength

\* btoa(String.fromCharCode(...bytes)): the base64 text of a byte buffer
Btoa(bytes) == [t |-> "base64", of |-> bytes]

IsBase64(s) == s.t = "base64"

\* Uint8Array.from(atob(s), c => c.charCodeAt(0)); defined when IsBase64(s),
\* atob throws InvalidCharacterError otherwise
Atob(s) == s.of

\* JS truthiness of the values the keystore tests with `if (x)` / `!x`
Truthy(v) ==
  CASE v.t = "null" -> FALSE
    [] v.t = "string" -> Len(v.u) > 0
    [] v.t = "base64" -> ByteLength(v.of) > 0
    [] OTHER -> TRUE

\* new TextEncoder().encode(s) on strings of ASCII units and lone surrogates
\* (0xD800..0xDFFF): UTF-8, a lone surrogate becomes U+FFFD
RECURSIVE Utf8Encode(_)
Utf8Encode(u) ==
  IF u = <<>> THEN <<>>
  ELSE (IF Head(u) \in 55296..57343 THEN <<239, 191, 189>> ELSE <<Head(u)>>)
       \o Utf8Encode(Tail(u))

\* new TextDecoder().decode(bytes) on the byte sequences Utf8Encode produces
RECURSIVE Utf8Decode(_)
Utf8Decode(b) ==
  IF b = <<>> THEN <<>>
  ELSE IF Len(b) >= 3 /\ SubSeq(b, 1, 3) = <<239, 191, 189>>
       THEN <<65533>> \o Utf8Decode(SubSeq(b, 4, Len(b)))
       ELSE <<Head(b)>> \o Utf8Decode(Tail(b))

\* ------------------------------------------------------------ input sets
Fps == <<"A1B2", "C3D4">>
Fingerprints == {Fps[i] : i \in 1..Len(Fps)}
FpRank(fp) == CHOOSE i \in 1..Len(Fps) : Fps[i] = fp

Variants == {"memory", "sessionStorage"}

\* <<80, i>> stands for the armored public certificate of Fps[i],
\* <<83, i>> for the armored secret key of Fps[i]
PublicKeyOf(fp) == Str(<<80, FpRank(fp)>>)
UserIds == {[name |-> Str(<<65>>), email |-> Null]}
IVs == {1, 2}

\* secretKey arguments by the signature of each draft
\* (Uint8Array | null in the memory draft, string | null in the other)
ByteSecrets == {Uint8Array(<<>>), Uint8Array(<<1>>)}
StringSecrets == {Str(<<>>), Str(<<65>>), Str(<<55296>>)}
SecretArgs(v) == {Null} \cup (IF v = "memory" THEN ByteSecrets ELSE StringSecrets)

Calls == 1..MaxCalls

VARIABLES
  variant,            \* which keystore draft is built into the page
  session,            \* number of the current session
  cachedWrappingKey,  \* module variable of the memory draft
  sessionStorage,     \* item WRAPPING_KEY_ID of the sessionStorage draft
  db,                 \* object store "keys": a set of StoredKey records
  calls,              \* pending async calls, by slot
  settled,            \* the call that settled last, as its caller sees it
  nextKey,            \* identity of the next key generateKey produces
  nops,               \* events so far
  keys,               \* KeyManager: let keys = $state([])
  importing,          \* KeyManager: let importing = $state(false)
  importError,        \* KeyManager: let importError = $state("")
  returned,           \* history: keys getWrappingKey has returned this session
  hist                \* history per fingerprint, used to state the properties

vars == <<variant, session, cachedWrappingKey, sessionStorage, db, calls,
          settled, nextKey, nops, keys, importing,
          importError, returned, hist>>

\* Date.now(), read as a logical time that advances with every event
Now == nops

\* ----------------------------------------------------- IndexedDB store
\* createObjectStore(STORE_NAME, { keyPath: "fingerprint" })
KeyPath(r) == r.fingerprint

\* a put that does not look for the record it replaces
PutAdds(store, record) == store \cup {record}

\* store.put(record): the record replaces any record with the same key
Put(store, record) ==
  {r \in store : KeyPath(r) # KeyPath(record)} \cup {record}

\* store.delete(fingerprint)
DeleteClears(store, fp) == {}
Delete(store, fp) == {r \in store : KeyPath(r) # fp}

\* store.get(fingerprint) ?? null
Get(store, fp) ==
  IF \E r \in store : KeyPath(r) = fp
  THEN CHOOSE r \in store : KeyPath(r) = fp
  ELSE Null

\* store.getAll(): every record, in ascending key order
RECURSIVE GetAllFrom(_, _)
GetAllFrom(store, i) ==
  IF i > Len(Fps) THEN <<>>
  ELSE LET here == {r \in store : KeyPath(r) = Fps[i]}
       IN  (IF here = {} THEN <<>> ELSE <<CHOOSE r \in here : TRUE>>)
           \o GetAllFrom(store, i + 1)
GetAll(store) == GetAllFrom(store, 1)

\* the StoredKey literal built in storeKey
StoredKey(fp, name, email, publicKey, encryptedSecretKey, iv, isOwn, addedAt) ==
  [t |-> "StoredKey", fingerprint |-> fp, name |-> name, email |-> email,
   publicKey |-> publicKey, encryptedSecretKey |-> encryptedSecretKey,
   iv |-> iv, isOwn |-> isOwn, addedAt |-> addedAt]

\* ------------------------------------------------------- wrapping key
\* getWrappingKey up to its first await: the key it will return without
\* generating one, or Null when it goes on to generateKey
WrappingKeyAtHand ==
  IF variant = "memory"
  THEN cachedWrappingKey
  ELSE IF Truthy(sessionStorage)
       THEN CryptoKey(Atob(sessionStorage).id, TRUE)   \* importKey("raw", raw, ..., true, ...)
       ELSE Null

\* crypto.subtle.decrypt({name: "AES-GCM", iv}, key, data) succeeds
DecryptOk(key, iv, data) ==
  /\ data.t = "gcm"
  /\ data.intact
  /\ iv.t = "iv"
  /\ data.k = key.id
  /\ data.iv = iv.n

\* decryptSecret(ciphertext, ivBase64) with the key getWrappingKey gave it:
\* the value it returns, or threw = TRUE when atob or decrypt throws
DecryptSecret(key, ciphertext, ivBase64) ==
  IF /\ IsBase64(ivBase64)
     /\ IsBase64(ciphertext)
     /\ DecryptOk(key, Atob(ivBase64), Atob(ciphertext))
  THEN [threw |-> FALSE,
        value |-> IF variant = "memory"
                  THEN Uint8Array(Atob(ciphertext).pt)          \* new Uint8Array(decrypted)
                  ELSE Str(Utf8Decode(Atob(ciphertext).pt))]    \* new TextDecoder().decode(decrypted)
  ELSE [threw |-> TRUE, value |-> Null]

\* getSecretKey without its try/catch
TryDecryptSecretUncaught(key, ciphertext, ivBase64) ==
  DecryptSecret(key, ciphertext, ivBase64)

\* the try/catch of getSecretKey around decryptSecret
TryDecryptSecret(key, ciphertext, ivBase64) ==
  LET d == DecryptSecret(key, ciphertext, ivBase64)
  IN  IF d.threw THEN [threw |-> FALSE, value |-> Null] ELSE d

\* the plaintext bytes encryptSecret hands to crypto.subtle.encrypt;
\* accepted = FALSE when WebCrypto rejects the argument with a TypeError
\* (the memory draft passes it on as is, and a string is not a BufferSource)
PlaintextBytes(secretKey) ==
  IF variant = "memory"
  THEN IF secretKey.t = "Uint8Array"
       THEN [accepted |-> TRUE, bytes |-> secretKey.b]
       ELSE [accepted |-> FALSE, bytes |-> <<>>]
  ELSE [accepted |-> TRUE, bytes |-> Utf8Encode(secretKey.u)]   \* new TextEncoder().encode(plaintext)

\* ------------------------------------------------------------------ calls
NoExpect == [t |-> "none"]
Expect(s) == [t |-> "secret", s |-> s]
Array(items) == [t |-> "Array", items |-> items]

Idle == [op |-> "idle", caller |-> "", pc |-> "idle", fingerprint |-> "",
         name |-> Null, email |-> Null, publicKey |-> Null, secretKey |-> Null,
         key |-> Null, record |-> Null, result |-> Null, threw |-> FALSE,
         expect |-> NoExpect, absent |-> {}, laterStore |-> FALSE]

StorePcs == {"generateKey", "encrypt", "put"}

\* storeKey(fp) calls that have not settled, other than slot c
StoresPending(fp, c) ==
  {d \in Calls \ {c} : /\ calls[d].op = "storeKey"
                       /\ calls[d].fingerprint = fp
                       /\ calls[d].pc \in StorePcs}

DeletesPending(fp, c) ==
  {d \in Calls \ {c} : /\ calls[d].op = "deleteKey"
                       /\ calls[d].fingerprint = fp
                       /\ calls[d].pc = "delete"}

\* a call can start: slot c is the first free one
FreeSlot(c) ==
  /\ calls[c].op = "idle"
  /\ \A d \in Calls : d < c => calls[d].op # "idle"
  /\ nops < MaxOps

NoGroup == [n |-> 0, resolved |-> 0, anySecret |-> FALSE, written |-> {}, clean |-> TRUE]

\* ------------------------------------------------------- history updates
\* what a storeKey(fp) that starts now does to the history of other calls
TouchedByStore(call, fp) ==
  IF call.op \in {"getKey", "getSecretKey", "listKeys"}
  THEN [call EXCEPT !.expect = IF call.fingerprint = fp THEN NoExpect ELSE @,
                    !.absent = @ \ {fp}]
  ELSE IF call.op = "deleteKey" /\ call.fingerprint = fp
       THEN [call EXCEPT !.laterStore = TRUE]
       ELSE call

\* what a deleteKey(fp) that starts now, or an edit of fp's record, does
TouchedByDelete(call, fp) ==
  IF call.op \in {"getKey", "getSecretKey"} /\ call.fingerprint = fp
  THEN [call EXCEPT !.expect = NoExpect]
  ELSE call

HistOnStoreStart(fp, c) ==
  [hist EXCEPT ![fp].deleted = FALSE,
               ![fp].stored = NoExpect,
               ![fp].group = IF StoresPending(fp, c) = {}
                             THEN [NoGroup EXCEPT !.n = 1,
                                                  !.clean = DeletesPending(fp, c) = {}]
                             ELSE [@ EXCEPT !.n = @ + 1]]

\* the promise of the call in slot c settles
Settle(c, call) ==
  /\ calls' = [calls EXCEPT ![c] = Idle]
  /\ settled' = [call EXCEPT !.pc = "done"]

\* ------------------------------------------------------------ storeKey
\* storeKey from its call to its first await.  With a truthy secretKey it
\* enters encryptSecret -> getWrappingKey; otherwise the record is built at
\* once and the call waits for openDb.
StoreKeyCall(caller, fp, name, email, publicKey, secretKey) ==
  LET k == WrappingKeyAtHand
      base == [Idle EXCEPT !.op = "storeKey", !.caller = caller,
                           !.fingerprint = fp, !.name = name, !.email = email,
                           !.publicKey = publicKey, !.secretKey = secretKey]
  IN  IF Truthy(secretKey)
      THEN IF k # Null
           THEN [base EXCEPT !.pc = "encrypt", !.key = k]
           ELSE [base EXCEPT !.pc = "generateKey"]
      ELSE [base EXCEPT !.pc = "put",
                        !.record = StoredKey(fp, name, email, publicKey, Null, Null,
                                             secretKey # Null, Now)]

StoreKeyStart(c, caller, fp, name, email, publicKey, secretKey) ==
  LET nc == StoreKeyCall(caller, fp, name, email, publicKey, secretKey)
  IN  /\ calls' = [d \in Calls |-> IF d = c THEN nc ELSE TouchedByStore(calls[d], fp)]
      /\ returned' = IF nc.pc = "encrypt" THEN returned \cup {nc.key.id} ELSE returned
      /\ hist' = HistOnStoreStart(fp, c)
      /\ nops' = nops + 1

\* a caller of the exported storeKey other than KeyManager.handleImport
StoreKey(c) ==
  /\ FreeSlot(c)
  /\ \E fp \in Fingerprints, uid \in UserIds, sk \in SecretArgs(variant) :
       StoreKeyStart(c, "api", fp, uid.name, uid.email, PublicKeyOf(fp), sk)
  /\ UNCHANGED <<variant, session, cachedWrappingKey, sessionStorage, db, settled,
                 nextKey, keys, importing, importError>>

\* getWrappingKey after generateKey has resolved (and, in the
\* sessionStorage draft, after exportKey and setItem)
GenerateKeyDone(c) ==
  /\ calls[c].pc = "generateKey"
  /\ LET id == [n |-> nextKey, session |-> session]
         key == CryptoKey(id, variant # "memory")
     IN  /\ IF variant = "memory"
            THEN /\ cachedWrappingKey' = key
                 /\ UNCHANGED sessionStorage
            ELSE /\ sessionStorage' = Btoa(RawKey(id))
                 /\ UNCHANGED cachedWrappingKey
         /\ calls' = [calls EXCEPT ![c].key = key,
                                   ![c].pc = IF calls[c].op = "storeKey"
                                             THEN "encrypt" ELSE "decrypt"]
         /\ returned' = returned \cup {id}
  /\ nextKey' = nextKey + 1
  /\ UNCHANGED <<variant, session, db, settled, nops, keys,
                 importing, importError, hist>>

\* encryptSecret after crypto.subtle.encrypt has settled, and storeKey up
\* to `await openDb()`.  A rejected encrypt rejects storeKey; handleImport
\* catches that and shows the error.
EncryptDone(c) ==
  /\ calls[c].op = "storeKey"
  /\ calls[c].pc = "encrypt"
  /\ LET call == calls[c]
         pt == PlaintextBytes(call.secretKey)
     IN  IF pt.accepted
         THEN /\ \E n \in IVs :
                   calls' = [calls EXCEPT
                     ![c].pc = "put",
                     ![c].record =
                        StoredKey(call.fingerprint, call.name, call.email, call.publicKey,
                                  Btoa(Gcm(call.key.id, n, pt.bytes)), Btoa(Iv(n)),
                                  call.secretKey # Null, Now)]
              /\ UNCHANGED <<settled, importing, importError>>
         ELSE /\ Settle(c, [call EXCEPT !.threw = TRUE])
              /\ IF call.caller = "handleImport"
                 THEN importError' = "TypeError" /\ importing' = FALSE
                 ELSE UNCHANGED <<importing, importError>>
  /\ UNCHANGED <<variant, session, cachedWrappingKey, sessionStorage, db, nextKey,
                 nops, keys, returned, hist>>

\* the readwrite transaction of storeKey completes: store.put(record).
\* storeKey resolves; handleImport goes on to `await refresh()`.
PutDone(c) ==
  /\ calls[c].op = "storeKey"
  /\ calls[c].pc = "put"
  /\ LET call == calls[c]
         fp == call.fingerprint
         alone == StoresPending(fp, c) = {} /\ DeletesPending(fp, c) = {}
     IN  /\ db' = Put(db, call.record)
         /\ IF call.caller = "handleImport"
            THEN calls' = [calls EXCEPT ![c].pc = "refresh"] /\ UNCHANGED settled
            ELSE Settle(c, call)
         /\ hist' = [hist EXCEPT
              ![fp].puts = @ + 1,
              ![fp].stored = IF alone THEN Expect(call.secretKey) ELSE NoExpect,
              ![fp].group = [@ EXCEPT !.resolved = @ + 1,
                                      !.anySecret = @ \/ call.secretKey # Null,
                                      !.written = @ \cup {call.record}]]
  /\ UNCHANGED <<variant, session, cachedWrappingKey, sessionStorage, nextKey,
                 nops, keys, importing, importError, returned>>

\* -------------------------------------------------- getKey, getSecretKey
ReadCall(op, fp) ==
  [Idle EXCEPT !.op = op, !.caller = "api", !.pc = "getKey", !.fingerprint = fp,
               !.expect = IF op = "getSecretKey" THEN hist[fp].stored ELSE NoExpect,
               !.absent = IF hist[fp].deleted THEN {fp} ELSE {}]

\* getKey(fp) is called: it waits for openDb and the readonly transaction
GetKey(c) ==
  /\ FreeSlot(c)
  /\ \E fp \in Fingerprints : calls' = [calls EXCEPT ![c] = ReadCall("getKey", fp)]
  /\ nops' = nops + 1
  /\ UNCHANGED <<variant, session, cachedWrappingKey, sessionStorage, db, settled,
                 nextKey, keys, importing, importError, returned,
                 hist>>

\* getSecretKey(fp) is called: it starts with `await getKey(fingerprint)`
GetSecretKey(c) ==
  /\ FreeSlot(c)
  /\ \E fp \in Fingerprints : calls' = [calls EXCEPT ![c] = ReadCall("getSecretKey", fp)]
  /\ nops' = nops + 1
  /\ UNCHANGED <<variant, session, cachedWrappingKey, sessionStorage, db, settled,
                 nextKey, keys, importing, importError, returned,
                 hist>>

\* `!record?.encryptedSecretKey || !record.iv`
NoWrappedSecret(record) ==
  \/ record = Null
  \/ ~Truthy(record.encryptedSecretKey)
  \/ ~Truthy(record.iv)

\* store.get(fingerprint) succeeds.  getKey resolves with the record;
\* getSecretKey goes on to its null test and into decryptSecret ->
\* getWrappingKey.
GetKeyDone(c) ==
  /\ calls[c].op \in {"getKey", "getSecretKey"}
  /\ calls[c].pc = "getKey"
  /\ LET record == Get(db, calls[c].fingerprint)
         call == [calls[c] EXCEPT !.record = record]
         k == WrappingKeyAtHand
     IN  IF call.op = "getKey"
         THEN /\ Settle(c, [call EXCEPT !.result = record])
              /\ UNCHANGED returned
         ELSE IF NoWrappedSecret(record)
         THEN /\ Settle(c, [call EXCEPT !.result = Null])
              /\ UNCHANGED returned
         ELSE IF k # Null
         THEN /\ calls' = [calls EXCEPT ![c] = [call EXCEPT !.pc = "decrypt", !.key = k]]
              /\ returned' = returned \cup {k.id}
              /\ UNCHANGED settled
         ELSE /\ calls' = [calls EXCEPT ![c] = [call EXCEPT !.pc = "generateKey"]]
              /\ UNCHANGED <<returned, settled>>
  /\ UNCHANGED <<variant, session, cachedWrappingKey, sessionStorage, db, nextKey,
                 nops, keys, importing, importError, hist>>

\* crypto.subtle.decrypt has settled (or atob threw): getSecretKey returns
DecryptDone(c) ==
  /\ calls[c].op = "getSecretKey"
  /\ calls[c].pc = "decrypt"
  /\ LET call == calls[c]
         r == TryDecryptSecret(call.key, call.record.encryptedSecretKey, call.record.iv)
     IN  Settle(c, [call EXCEPT !.result = r.value, !.threw = r.threw])
  /\ UNCHANGED <<variant, session, cachedWrappingKey, sessionStorage, db, nextKey,
                 nops, keys, importing, importError, returned, hist>>

\* ------------------------------------------------------------- listKeys
\* listKeys() is called, by KeyManager's refresh() or by another view
ListKeys(c) ==
  /\ FreeSlot(c)
  /\ \E caller \in {"api", "refresh"} :
       calls' = [calls EXCEPT ![c] =
                   [Idle EXCEPT !.op = "listKeys", !.caller = caller, !.pc = "getAll",
                                !.absent = {fp \in Fingerprints : hist[fp].deleted}]]
  /\ nops' = nops + 1
  /\ UNCHANGED <<variant, session, cachedWrappingKey, sessionStorage, db, settled,
                 nextKey, keys, importing, importError, returned,
                 hist>>

\* store.getAll() succeeds; refresh() assigns the result to keys
GetAllDone(c) ==
  /\ calls[c].op = "listKeys"
  /\ calls[c].pc = "getAll"
  /\ Settle(c, [calls[c] EXCEPT !.result = Array(GetAll(db))])
  /\ keys' = IF calls[c].caller = "refresh" THEN Array(GetAll(db)) ELSE keys
  /\ UNCHANGED <<variant, session, cachedWrappingKey, sessionStorage, db, nextKey,
                 nops, importing, importError, returned, hist>>

\* ------------------------------------------------------------ deleteKey
\* deleteKey(fp) is called: it waits for openDb and its transaction
DeleteKey(c) ==
  /\ FreeSlot(c)
  /\ \E fp \in Fingerprints :
       /\ calls' = [d \in Calls |->
                      IF d = c
                      THEN [Idle EXCEPT !.op = "deleteKey", !.caller = "api",
                                        !.pc = "delete", !.fingerprint = fp]
                      ELSE TouchedByDelete(calls[d], fp)]
       /\ hist' = [hist EXCEPT ![fp].stored = NoExpect, ![fp].group.clean = FALSE]
  /\ nops' = nops + 1
  /\ UNCHANGED <<variant, session, cachedWrappingKey, sessionStorage, db, settled,
                 nextKey, keys, importing, importError, returned>>

\* the readwrite transaction of deleteKey completes: store.delete(fingerprint)
DeleteDone(c) ==
  /\ calls[c].op = "deleteKey"
  /\ calls[c].pc = "delete"
  /\ LET fp == calls[c].fingerprint
     IN  /\ db' = Delete(db, fp)
         /\ hist' = [hist EXCEPT ![fp].deleted = IF calls[c].laterStore THEN @ ELSE TRUE,
                                 ![fp].group.clean = FALSE]
  /\ Settle(c, calls[c])
  /\ UNCHANGED <<variant, session, cachedWrappingKey, sessionStorage, nextKey,
                 nops, keys, importing, importError, returned>>

\* ----------------------------------------------- KeyManager.handleImport
\* String.prototype.trim on the texts the import box is given
RECURSIVE TrimStart(_)
TrimStart(u) == IF u # <<>> /\ Head(u) = 32 THEN TrimStart(Tail(u)) ELSE u
RECURSIVE TrimEnd(_)
TrimEnd(u) == IF u # <<>> /\ u[Len(u)] = 32 THEN TrimEnd(SubSeq(u, 1, Len(u) - 1)) ELSE u
Trim(s) == Str(TrimEnd(TrimStart(s.u)))

\* texts pasted into the import box
ImportTexts == {Str(<<32>>), Str(<<63>>),
                Str(<<80, 1>>), Str(<<83, 1>>), Str(<<80, 2>>), Str(<<83, 2>>)}

\* inspectKey(keyData) of the wasm module: CertInfo, or threw for a text
\* that is not an OpenPGP key
InspectKey(keyData) ==
  IF Len(keyData.u) = 2 /\ keyData.u[1] \in {80, 83} /\ keyData.u[2] \in 1..Len(Fps)
  THEN [threw |-> FALSE, fingerprint |-> Fps[keyData.u[2]],
        user_ids |-> <<[name |-> Str(<<65>>), email |-> Null]>>,
        has_secret_key |-> keyData.u[1] = 83]
  ELSE [threw |-> TRUE, fingerprint |-> "", user_ids |-> <<>>, has_secret_key |-> FALSE]

\* handleImport from the click to its first await (the button is disabled
\* while importing)
HandleImport(c) ==
  /\ FreeSlot(c)
  /\ ~importing
  /\ \E importData \in ImportTexts :
       LET info == InspectKey(importData)
           name == IF info.user_ids # <<>> THEN info.user_ids[1].name ELSE Null
           email == IF info.user_ids # <<>> THEN info.user_ids[1].email ELSE Null
           secretKey == IF info.has_secret_key THEN importData ELSE Null
       IN  IF ~Truthy(Trim(importData))
           THEN /\ importError' = "import_error_empty"
                /\ nops' = nops + 1
                /\ UNCHANGED <<importing, calls, returned, hist>>
           ELSE IF info.threw
           THEN /\ importError' = "Error"
                /\ nops' = nops + 1
                /\ UNCHANGED <<importing, calls, returned, hist>>
           ELSE /\ importError' = ""
                /\ importing' = TRUE
                /\ StoreKeyStart(c, "handleImport", info.fingerprint, name, email,
                                 importData, secretKey)
  /\ UNCHANGED <<variant, session, cachedWrappingKey, sessionStorage, db, settled,
                 nextKey, keys>>

\* handleImport after storeKey resolved: `await refresh()` and `finally`
RefreshDone(c) ==
  /\ calls[c].op = "storeKey"
  /\ calls[c].pc = "refresh"
  /\ keys' = Array(GetAll(db))
  /\ importing' = FALSE
  /\ Settle(c, calls[c])
  /\ UNCHANGED <<variant, session, cachedWrappingKey, sessionStorage, db, nextKey,
                 nops, importError, returned, hist>>

\* ------------------------------------------------------------ environment
\* a new page that still finds the wrapping key of the page before
NewPageKeyKept ==
  /\ nops < MaxOps
  /\ \E closeTab \in BOOLEAN :
       LET newSession == closeTab \/ variant = "memory"
       IN  /\ sessionStorage' = sessionStorage
           /\ session' = IF newSession THEN session + 1 ELSE session
           /\ returned' = IF newSession THEN {} ELSE returned
           /\ hist' = [fp \in Fingerprints |->
                         [hist[fp] EXCEPT !.stored = IF newSession THEN NoExpect ELSE @,
                                          !.group = [NoGroup EXCEPT !.clean = FALSE]]]
  /\ cachedWrappingKey' = cachedWrappingKey
  /\ calls' = [c \in Calls |-> Idle]
  /\ settled' = Idle
  /\ keys' = Array(<<>>)
  /\ importing' = FALSE
  /\ importError' = ""
  /\ nops' = nops + 1
  /\ UNCHANGED <<variant, db, nextKey>>

\* The page is reloaded (closeTab = FALSE) or its tab is closed and the app
\* opened again (closeTab = TRUE).  Module state and pending calls are gone,
\* IndexedDB stays, sessionStorage survives a reload only.
NewPage ==
  /\ nops < MaxOps
  /\ \E closeTab \in BOOLEAN :
       LET newSession == closeTab \/ variant = "memory"
       IN  /\ sessionStorage' = IF closeTab THEN Null ELSE sessionStorage
           /\ session' = IF newSession THEN session + 1 ELSE session
           /\ returned' = IF newSession THEN {} ELSE returned
           /\ hist' = [fp \in Fingerprints |->
                         [hist[fp] EXCEPT !.stored = IF newSession THEN NoExpect ELSE @,
                                          !.group = [NoGroup EXCEPT !.clean = FALSE]]]
  /\ cachedWrappingKey' = Null
  /\ calls' = [c \in Calls |-> Idle]
  /\ settled' = Idle
  /\ keys' = Array(<<>>)
  /\ importing' = FALSE
  /\ importError' = ""
  /\ nops' = nops + 1
  /\ UNCHANGED <<variant, db, nextKey>>

\* ways a stored wrapped secret can be damaged behind the keystore's back
Damages == {"ciphertext bits", "ciphertext text", "iv bits", "iv text"}

Damaged(r, how) ==
  CASE how = "ciphertext bits" ->
         [r EXCEPT !.encryptedSecretKey =
                     IF IsBase64(@) THEN Btoa([Atob(@) EXCEPT !.intact = FALSE]) ELSE @]
    [] how = "ciphertext text" -> [r EXCEPT !.encryptedSecretKey = Str(<<33>>)]
    [] how = "iv bits" ->
         [r EXCEPT !.iv = IF IsBase64(@)
                          THEN Btoa(Iv(CHOOSE n \in IVs : n # Atob(@).n)) ELSE @]
    [] how = "iv text" -> [r EXCEPT !.iv = Str(<<33>>)]

\* the record of a fingerprint is edited in IndexedDB by something other
\* than the keystore (ciphertext or nonce tampered or malformed)
Tamper ==
  /\ nops < MaxOps
  /\ \E r \in db, how \in Damages :
       /\ ~NoWrappedSecret(r)
       /\ db' = Put(db, Damaged(r, how))
       /\ hist' = [hist EXCEPT ![r.fingerprint].stored = NoExpect,
                               ![r.fingerprint].group.clean = FALSE]
       /\ calls' = [c \in Calls |-> TouchedByDelete(calls[c], r.fingerprint)]
  /\ nops' = nops + 1
  /\ UNCHANGED <<variant, session, cachedWrappingKey, sessionStorage, settled, nextKey,
                 keys, importing, importError, returned>>

\* ============================================== sync-bundle QR scanning
\* JavaScript strings of the scanner are sequences of one-character strings.
KCPGP == <<"K", "C", "P", "G", "P", ":">>
KCPGP_PASS == <<"K", "C", "P", "G", "P", "-", "P", "A", "S", "S", ":">>

\* String.prototype.startsWith
StartsWith(s, prefix) ==
  /\ Len(s) >= Len(prefix)
  /\ SubSeq(s, 1, Len(prefix)) = prefix

\* String.prototype.slice(start) and slice(start, end), 0-based, end exclusive
Slice(s, start) == SubSeq(s, start + 1, Len(s))
SliceTo(s, start, end) == SubSeq(s, start + 1, end)

\* String.prototype.indexOf: 0-based index of the first ch, or -1
IndexOf(s, ch) ==
  IF \E i \in 1..Len(s) : s[i] = ch
  THEN (CHOOSE i \in 1..Len(s) : s[i] = ch /\ \A j \in 1..(i - 1) : s[j] # ch) - 1
  ELSE -1

Digits == <<"0", "1", "2", "3", "4", "5", "6", "7", "8", "9">>
IsDigit(ch) == \E i \in 1..Len(Digits) : Digits[i] = ch
DigitValue(ch) == (CHOOSE i \in 1..Len(Digits) : Digits[i] = ch) - 1

NaN == [nan |-> TRUE, n |-> 0]
Number(n) == [nan |-> FALSE, n |-> n]
IsNaN(x) == x.nan

RECURSIVE SkipWhiteSpace(_)
SkipWhiteSpace(s) ==
  IF s # <<>> /\ Head(s) = " " THEN SkipWhiteSpace(Tail(s)) ELSE s

\* the value of the longest prefix of s made of decimal digits, after acc
RECURSIVE DigitsPrefix(_, _)
DigitsPrefix(s, acc) ==
  IF s # <<>> /\ IsDigit(Head(s))
  THEN DigitsPrefix(Tail(s), acc * 10 + DigitValue(Head(s)))
  ELSE acc

\* parseInt(s, 10): leading white space is skipped, a sign is read, then the
\* longest prefix of digits; what follows the digits is ignored, and the
\* result is NaN when there is no digit at that place.
ParseInt(s) ==
  LET t == SkipWhiteSpace(s)
      signed == t # <<>> /\ Head(t) \in {"+", "-"}
      body == IF signed THEN Tail(t) ELSE t
  IN  IF body = <<>> \/ ~IsDigit(Head(body))
      THEN NaN
      ELSE Number((IF signed /\ Head(t) = "-" THEN -1 ELSE 1) * DigitsPrefix(body, 0))

QrPart(part, total, data) == [t |-> "QrPart", part |-> part, total |-> total, data |-> data]

\* parseKcpgpPart(content)
ParseKcpgpPart(content) ==
  IF ~StartsWith(content, KCPGP) THEN Null
  ELSE
    LET rest == Slice(content, 6)
        colonIdx == IndexOf(rest, ":")
    IN  IF colonIdx < 0 THEN Null
        ELSE
          LET header == SliceTo(rest, 0, colonIdx)
              data == Slice(rest, colonIdx + 1)
              slashIdx == IndexOf(header, "/")
          IN  IF slashIdx < 0 THEN Null
              ELSE
                LET part == ParseInt(SliceTo(header, 0, slashIdx))
                    total == ParseInt(Slice(header, slashIdx + 1))
                IN  IF IsNaN(part) \/ IsNaN(total) \/ part.n < 1 \/ total.n < 1
                    THEN Null
                    ELSE QrPart(part.n, total.n, data)

\* the QR codes of a bundle: KCPGP:<n>/<total>:<data>, n = 1..total
Numeral(n) == <<Digits[n + 1]>>
QrContent(header, data) == KCPGP \o header \o <<":">> \o data
BundlePart(bundle, n) ==
  QrContent(Numeral(n) \o <<"/">> \o Numeral(Len(bundle)), bundle[n])
BundleContents(bundle) == {BundlePart(bundle, n) : n \in 1..Len(bundle)}
RECURSIVE Envelope(_)
Envelope(bundle) ==
  IF bundle = <<>> THEN <<>> ELSE Head(bundle) \o Envelope(Tail(bundle))

\* the data of two bundles, of two and of three parts
Bundles == {<<<<"a">>, <<"b">>>>, <<<<"c">>, <<"d">>, <<"e">>>>}

\* what the camera can show: the parts of the bundles, a passphrase code and
\* codes that are not parts of any bundle
StrayContents ==
  { QrContent(<<"3", "/", "2">>, <<"x">>),
    QrContent(<<"0", "1", "/", "2">>, <<"a">>),
    QrContent(<<"1", "x", "/", "2">>, <<"a">>),
    QrContent(<<"x", "/", "2">>, <<"a">>),
    QrContent(<<"0", "/", "2">>, <<"a">>),
    KCPGP \o <<"1", "/", "2">>,
    QrContent(<<"1", "2">>, <<"a">>),
    <<"h", "i">> }
PassContents == {KCPGP_PASS \o <<"p", "w">>}
Contents == UNION {BundleContents(b) : b \in Bundles} \cup StrayContents \cup PassContents

NotSyncQr == [t |-> "string", text |-> "Not a sync QR code. Use the Import Key function for single keys."]
NoScan == [content |-> <<>>, part |-> Null, done |-> FALSE]

VARIABLES
  scanning,           \* KeySyncImport: let scanning = $state(false)
  scannedParts,       \* Map<number, string>: entries in insertion order
  totalParts,         \* let totalParts = $state(0)
  passphrase,         \* let passphrase = $state("")
  passphraseFromQr,   \* let passphraseFromQr = $state(false)
  encryptedData,      \* let encryptedData = $state("")
  error,              \* let error: string | null = $state(null)
  delivered,          \* history: the codes handed to onscan in this scan
  nscans,             \* history: how many codes this scan was handed
  produced,           \* history: this scan has set encryptedData
  lastScan            \* history: the last code, what it parsed to, what onscan returned

scanVars == <<scanning, scannedParts, totalParts, passphrase, passphraseFromQr,
              encryptedData, error, delivered, nscans, produced, lastScan>>

\* Map.prototype.set: a present key keeps its place, a new one goes last
MapSet(map, key, value) ==
  IF \E i \in 1..Len(map) : map[i][1] = key
  THEN [i \in 1..Len(map) |-> IF map[i][1] = key THEN <<key, value>> ELSE map[i]]
  ELSE Append(map, <<key, value>>)

MapSize(map) == Len(map)
MapKeys(map) == {map[i][1] : i \in 1..Len(map)}

MapEntries(map) == {map[i] : i \in 1..Len(map)}

\* Array.from(map.entries()) as the Map hands them out: in insertion order
EntriesUnsorted(map) == map

\* Array.from(map.entries()).sort(([a], [b]) => a - b): keys are distinct, so
\* the i-th entry is the one with i - 1 smaller keys
SortedEntries(map) ==
  [i \in 1..Len(map) |->
     CHOOSE e \in MapEntries(map) :
       Cardinality({f \in MapEntries(map) : f[1] < e[1]}) = i - 1]

\* .map(([, data]) => data).join("")
RECURSIVE JoinData(_)
JoinData(entries) ==
  IF entries = <<>> THEN <<>> ELSE Head(entries)[2] \o JoinData(Tail(entries))

\* startScan()
StartScan ==
  /\ error' = Null
  /\ scannedParts' = <<>>
  /\ totalParts' = 0
  /\ passphraseFromQr' = FALSE
  /\ scanning' = TRUE
  /\ delivered' = {}
  /\ nscans' = 0
  /\ produced' = FALSE
  /\ lastScan' = NoScan
  /\ UNCHANGED <<passphrase, encryptedData>>

\* handleCancelScan()
HandleCancelScan ==
  /\ scanning
  /\ scanning' = FALSE
  /\ UNCHANGED <<scannedParts, totalParts, passphrase, passphraseFromQr,
                 encryptedData, error, delivered, nscans, produced, lastScan>>

\* onscan of the overlay: handleScanResult(content), and the scan ends when
\* it returns true
HandleScanResult(content) ==
  /\ scanning
  /\ nscans < MaxScans
  /\ delivered' = delivered \cup {content}
  /\ nscans' = nscans + 1
  /\ IF StartsWith(content, KCPGP_PASS)
     THEN /\ passphrase' = Slice(content, 11)
          /\ passphraseFromQr' = TRUE
          /\ lastScan' = [content |-> content, part |-> Null, done |-> FALSE]
          /\ UNCHANGED <<scanning, scannedParts, totalParts, encryptedData, error,
                         produced>>
     ELSE
       LET part == ParseKcpgpPart(content)
       IN  IF part = Null
           THEN /\ error' = NotSyncQr
                /\ scanning' = FALSE
                /\ lastScan' = [content |-> content, part |-> part, done |-> TRUE]
                /\ UNCHANGED <<scannedParts, totalParts, passphrase,
                               passphraseFromQr, encryptedData, produced>>
           ELSE
             LET parts == MapSet(scannedParts, part.part, part.data)
                 done == MapSize(parts) >= part.total
             IN  /\ totalParts' = part.total
                 /\ scannedParts' = parts
                 /\ encryptedData' = IF done THEN JoinData(SortedEntries(parts))
                                     ELSE encryptedData
                 /\ produced' = done
                 /\ scanning' = ~done
                 /\ lastScan' = [content |-> content, part |-> part, done |-> done]
                 /\ UNCHANGED <<passphrase, passphraseFromQr, error>>

ScanInit ==
  /\ scanning = FALSE
  /\ scannedParts = <<>>
  /\ totalParts = 0
  /\ passphrase = <<>>
  /\ passphraseFromQr = FALSE
  /\ encryptedData = <<>>
  /\ error = Null
  /\ delivered = {}
  /\ nscans = 0
  /\ produced = FALSE
  /\ lastScan = NoScan

\* ================================================ DecryptView.handleDecrypt
\* The view is written against the keystore whose getSecretKey returns a
\* string (the sessionStorage draft): it hands the value to decrypt() as is.
SecretKeyOf(fp) == Str(<<83, FpRank(fp)>>)

\* a message is blank, or an armored message encrypted to some recipients
Message(blank, recipients) == [t |-> "message", blank |-> blank, recipients |-> recipients]
Messages ==
  {Message(TRUE, {})} \cup {Message(FALSE, rs) : rs \in SUBSET Fingerprints}

\* decrypt(ciphertext, secretKey, passphrase) of the wasm package: the
\* plaintext when the secret key is that of a recipient, a throw otherwise
Plaintext(msg) == [t |-> "plaintext", of |-> msg.recipients]
Decrypt(msg, secretKey) ==
  IF \E fp \in msg.recipients : SecretKeyOf(fp) = secretKey
  THEN [threw |-> FALSE, value |-> Plaintext(msg)]
  ELSE [threw |-> TRUE, value |-> Null]

VARIABLES
  ciphertext,         \* DecryptView: let ciphertext = $state("")
  output,             \* let output = $state(""): Null stands for ""
  decryptError,       \* let error = $state("")
  ownKeys,            \* handleDecrypt: const ownKeys
  keyIndex,           \* handleDecrypt: position of the for loop in ownKeys
  decryptPc,          \* handleDecrypt: the await it is at
  tried,              \* history: fingerprints whose secret key was asked for
  unwrapped           \* history: secrets obtained, each with whether it was zero-filled

decryptVars == <<ciphertext, output, decryptError, ownKeys, keyIndex, decryptPc,
                 tried, unwrapped>>

\* keys.filter((k) => k.isOwn)
OwnKeys(items) == SelectSeq(items, LAMBDA k : k.isOwn)

\* handleDecrypt() is called on the text in the box, up to `await listKeys()`
HandleDecrypt ==
  /\ decryptPc = "idle"
  /\ \E msg \in Messages :
       /\ ciphertext' = msg
       /\ IF msg.blank
          THEN decryptError' = "decrypt_error_empty" /\ decryptPc' = "idle"
          ELSE decryptError' = "" /\ decryptPc' = "listKeys"
  /\ output' = Null
  /\ ownKeys' = <<>>
  /\ keyIndex' = 0
  /\ tried' = <<>>
  /\ unwrapped' = <<>>
  /\ UNCHANGED vars

\* listKeys() has resolved: up to the first `await getSecretKey(...)`
DecryptListKeysDone ==
  /\ decryptPc = "listKeys"
  /\ LET own == OwnKeys(GetAll(db))
     IN  /\ ownKeys' = own
         /\ IF own = <<>>
            THEN /\ decryptError' = "decrypt_error_no_key"
                 /\ decryptPc' = "idle"
                 /\ UNCHANGED <<keyIndex, tried>>
            ELSE /\ decryptPc' = "getSecretKey"
                 /\ keyIndex' = 1
                 /\ tried' = <<own[1].fingerprint>>
                 /\ UNCHANGED decryptError
  /\ UNCHANGED <<ciphertext, output, unwrapped>>
  /\ UNCHANGED vars

\* getSecretKey(key.fingerprint) has resolved: the body of the for loop, up
\* to the next `await getSecretKey(...)` or to the end of handleDecrypt.  No
\* other keystore call is pending here, so getSecretKey's own awaits are one
\* step; with no wrapping key at hand it generates and keeps a new one.
DecryptGetSecretKeyDone ==
  /\ decryptPc = "getSecretKey"
  /\ LET fp == ownKeys[keyIndex].fingerprint
         record == Get(db, fp)
         fresh == [n |-> nextKey, session |-> session]
         k == IF WrappingKeyAtHand # Null THEN WrappingKeyAtHand
              ELSE CryptoKey(fresh, variant # "memory")
         generated == ~NoWrappedSecret(record) /\ WrappingKeyAtHand = Null
         secretKey == IF NoWrappedSecret(record) THEN Null
                      ELSE TryDecryptSecret(k, record.encryptedSecretKey, record.iv).value
         attempt == IF Truthy(secretKey) THEN Decrypt(ciphertext, secretKey)
                    ELSE [threw |-> TRUE, value |-> Null]
         more == keyIndex < Len(ownKeys)
     IN  /\ IF generated
            THEN /\ nextKey' = nextKey + 1
                 /\ returned' = returned \cup {fresh}
                 /\ IF variant = "memory"
                    THEN cachedWrappingKey' = k /\ UNCHANGED sessionStorage
                    ELSE sessionStorage' = Btoa(RawKey(fresh)) /\ UNCHANGED cachedWrappingKey
            ELSE UNCHANGED <<nextKey, returned, cachedWrappingKey, sessionStorage>>
         /\ unwrapped' = IF secretKey = Null THEN unwrapped
                         ELSE Append(unwrapped, [fingerprint |-> fp, secret |-> secretKey,
                                                 zeroed |-> FALSE])
         /\ IF ~attempt.threw
            THEN /\ output' = attempt.value
                 /\ decryptPc' = "idle"
                 /\ UNCHANGED <<decryptError, keyIndex, tried>>
            ELSE IF more
            THEN /\ keyIndex' = keyIndex + 1
                 /\ tried' = Append(tried, ownKeys[keyIndex + 1].fingerprint)
                 /\ UNCHANGED <<output, decryptError, decryptPc>>
            ELSE /\ decryptError' = "decrypt_error_failed"
                 /\ decryptPc' = "idle"
                 /\ UNCHANGED <<output, keyIndex, tried>>
  /\ UNCHANGED <<ciphertext, ownKeys>>
  /\ UNCHANGED <<variant, session, db, calls, settled, nops, keys, importing,
                 importError, hist>>

DecryptViewInit ==
  /\ ciphertext = Message(TRUE, {})
  /\ output = Null
  /\ decryptError = ""
  /\ ownKeys = <<>>
  /\ keyIndex = 0
  /\ decryptPc = "idle"
  /\ tried = <<>>
  /\ unwrapped = <<>>

\* --- the keystore the view finds: what storeKey calls made one after the
\* other, each resolved before the next, have left in the store
Imports ==
  {<<>>} \cup {<<[fingerprint |-> fp, own |-> o]>> : fp \in Fingerprints, o \in BOOLEAN}
         \cup {s \in {<<[fingerprint |-> fp, own |-> o], [fingerprint |-> gp, own |-> p]>> :
                         fp \in Fingerprints, gp \in Fingerprints,
                         o \in BOOLEAN, p \in BOOLEAN} :
                  s[1].fingerprint # s[2].fingerprint}

\* the record of the i-th of these storeKey calls, wrapped under `key`
ImportedRecord(imports, i, key) ==
  LET fp == imports[i].fingerprint
      user == CHOOSE u \in UserIds : TRUE
  IN  IF imports[i].own
      THEN StoredKey(fp, user.name, user.email, PublicKeyOf(fp),
                     Btoa(Gcm(key, i, Utf8Encode(SecretKeyOf(fp).u))), Btoa(Iv(i)), TRUE, i)
      ELSE StoredKey(fp, user.name, user.email, PublicKeyOf(fp), Null, Null, FALSE, i)

RECURSIVE StoredInTurn(_, _, _)
StoredInTurn(imports, i, key) ==
  IF i = 0 THEN {}
  ELSE Put(StoredInTurn(imports, i - 1, key), ImportedRecord(imports, i, key))

\* the page after these imports; with tabClosed the tab was closed and opened
\* again since, which empties sessionStorage
KeystoreAfterImports ==
  /\ variant = "sessionStorage"
  /\ cachedWrappingKey = Null
  /\ calls = [c \in Calls |-> Idle]
  /\ settled = Idle
  /\ keys = Array(<<>>)
  /\ importing = FALSE
  /\ importError = ""
  /\ returned = {}
  /\ \E imports \in Imports, tabClosed \in BOOLEAN :
       LET key == [n |-> 1, session |-> 1]
           wrapped == \E i \in 1..Len(imports) : imports[i].own
       IN  /\ db = StoredInTurn(imports, Len(imports), key)
           /\ nops = Len(imports) + (IF tabClosed THEN 1 ELSE 0)
           /\ session = IF tabClosed THEN 2 ELSE 1
           /\ nextKey = IF wrapped THEN 2 ELSE 1
           /\ sessionStorage = IF wrapped /\ ~tabClosed THEN Btoa(RawKey(key)) ELSE Null
           /\ hist = [fp \in Fingerprints |->
                        [deleted |-> FALSE, stored |-> NoExpect,
                         puts |-> Cardinality({i \in 1..Len(imports) : imports[i].fingerprint = fp}),
                         group |-> [NoGroup EXCEPT !.clean = FALSE]]]

\* ============================================================ OPSEC mode
\* settingsStore.settings, cut down to the two settings the actions toggle
Settings(opsec_mode, auto_clear_enabled) ==
  [opsec_mode |-> opsec_mode, auto_clear_enabled |-> auto_clear_enabled]
defaults == Settings(FALSE, TRUE)

\* what a persistent medium was handed
MetadataWrite(fp) == [medium |-> "SQLite database", bytes |-> fp]

NoToggle == [at |-> "idle", awaits |-> defaults]

VARIABLES
  settings,           \* settingsStore: let settings = $state({ ...defaults })
  updates,            \* update_settings commands invoked and not yet run
  toggling,           \* toggleOpsecMode: the await it is at, what it saved
  opsecEnabled,       \* backend: the OPSEC-mode flag
  keyDatabase,        \* disk: fingerprints with a metadata row in SQLite
  credentialStore,    \* disk: fingerprints with a stored secret key
  opsec_secret_keys,  \* RAM: secret keys held while OPSEC mode is on
  settingsFile,       \* disk: the settings last persisted
  imported,           \* history: keys handed to the import and generate commands
  opsecWrites         \* history: writes to a persistent medium by commands
                      \* that ran while OPSEC mode was enabled

opsecVars == <<settings, updates, toggling, opsecEnabled, keyDatabase,
               credentialStore, opsec_secret_keys, settingsFile, imported,
               opsecWrites>>

\* settingsStore.save(partial) up to its await: the new settings are kept
\* and update_settings is invoked with them
Save(next) ==
  /\ settings' = next
  /\ updates' = updates \cup {next}

\* toggle("auto_clear_enabled"): save is not awaited
Toggle ==
  /\ Save([settings EXCEPT !.auto_clear_enabled = ~@])
  /\ UNCHANGED <<toggling, opsecEnabled, keyDatabase, credentialStore,
                 opsec_secret_keys, settingsFile, imported, opsecWrites>>

\* toggleOpsecMode() up to `await settingsStore.save(...)`
ToggleOpsecMode ==
  /\ toggling.at = "idle"
  /\ LET newValue == ~settings.opsec_mode
         next == [settings EXCEPT !.opsec_mode = newValue]
     IN  /\ Save(next)
         /\ toggling' = [at |-> IF newValue THEN "enable" ELSE "disable", awaits |-> next]
  /\ UNCHANGED <<opsecEnabled, keyDatabase, credentialStore, opsec_secret_keys,
                 settingsFile, imported, opsecWrites>>

\* the update_settings command runs: the settings are persisted, and stay in
\* memory only while OPSEC mode is enabled
UpdateSettings ==
  /\ \E s \in updates :
       /\ updates' = updates \ {s}
       /\ settingsFile' = IF opsecEnabled THEN settingsFile ELSE s
  /\ UNCHANGED <<settings, toggling, opsecEnabled, keyDatabase, credentialStore,
                 opsec_secret_keys, imported, opsecWrites>>

\* the save has settled and newValue is true: enableOpsecMode(title) runs
EnableOpsecMode ==
  /\ toggling.at = "enable"
  /\ toggling.awaits \notin updates
  /\ opsecEnabled' = TRUE
  /\ toggling' = NoToggle
  /\ UNCHANGED <<settings, updates, keyDatabase, credentialStore,
                 opsec_secret_keys, settingsFile, imported, opsecWrites>>

\* the save has settled and newValue is false: disableOpsecMode() runs and
\* the secret keys held in RAM are dropped
DisableOpsecMode ==
  /\ toggling.at = "disable"
  /\ toggling.awaits \notin updates
  /\ opsecEnabled' = FALSE
  /\ opsec_secret_keys' = {}
  /\ toggling' = NoToggle
  /\ UNCHANGED <<settings, updates, keyDatabase, credentialStore, settingsFile,
                 imported, opsecWrites>>

\* the import_key / generate_key_pair command stores a key: the public key
\* and its metadata go to the SQLite database in either mode; the secret key
\* goes to the credential store, or to RAM while OPSEC mode is enabled
StoreKeyCommand ==
  /\ Cardinality(imported) < MaxImports
  /\ \E fp \in Fingerprints, own \in BOOLEAN :
       /\ [fingerprint |-> fp, own |-> own] \notin imported
       /\ imported' = imported \cup {[fingerprint |-> fp, own |-> own]}
       /\ keyDatabase' = keyDatabase \cup {fp}
       /\ IF own /\ opsecEnabled
          THEN opsec_secret_keys' = opsec_secret_keys \cup {fp} /\ UNCHANGED credentialStore
          ELSE IF own
          THEN credentialStore' = credentialStore \cup {fp} /\ UNCHANGED opsec_secret_keys
          ELSE UNCHANGED <<credentialStore, opsec_secret_keys>>
       /\ opsecWrites' = IF opsecEnabled
                         THEN opsecWrites \cup {MetadataWrite(fp)}
                         ELSE opsecWrites
  /\ UNCHANGED <<settings, updates, toggling, opsecEnabled, settingsFile>>

\* the backend call of toggleOpsecMode rejects: the promise of
\* toggleOpsecMode rejects with it and nothing else is done
OpsecCallRejects ==
  /\ toggling.at \in {"enable", "disable"}
  /\ toggling.awaits \notin updates
  /\ toggling' = NoToggle
  /\ UNCHANGED <<settings, updates, opsecEnabled, keyDatabase, credentialStore,
                 opsec_secret_keys, settingsFile, imported, opsecWrites>>

OpsecInit ==
  /\ settings = defaults
  /\ updates = {}
  /\ toggling = NoToggle
  /\ opsecEnabled = FALSE
  /\ keyDatabase = {}
  /\ credentialStore = {}
  /\ opsec_secret_keys = {}
  /\ settingsFile = defaults
  /\ imported = {}
  /\ opsecWrites = {}

\* ================================================== fingerprint ingress
\* Fingerprints as they can arrive: strings of characters, not all of them
\* upper-case hexadecimal.
IngressFingerprints ==
  { <<"A", "1", "B", "2">>, <<"0", "9", "F">>, <<>>, <<"a", "1", "b", "2">>,
    <<".", ".", "/", "A", "1">>, <<"A", "1", "/", "B">>, <<"A", ".", "1">>, <<"G", "1">> }

\* char::is_ascii_hexdigit
IsAsciiHexdigit(ch) ==
  \/ IsDigit(ch)
  \/ ch \in {"A", "B", "C", "D", "E", "F"}
  \/ ch \in {"a", "b", "c", "d", "e", "f"}

\* secret_key_path(fingerprint): the assert panics on a character that is
\* not a hexadecimal digit; otherwise the path secrets_dir/<fingerprint>.key
\* is composed
SecretKeyPath(fingerprint) ==
  IF \A i \in 1..Len(fingerprint) : IsAsciiHexdigit(fingerprint[i])
  THEN [outcome |-> "ok", path |-> <<"secrets_dir", fingerprint \o <<".", "k", "e", "y">>>>]
  ELSE [outcome |-> "panic", path |-> <<>>]

NoIngress == [op |-> "none", fingerprint |-> <<>>, pc |-> "done", outcome |-> "ok"]

VARIABLES
  ingress,            \* the call a fingerprint last came in with, and how it ended
  composed            \* history: the secrets-file paths composed so far

ingressVars == <<ingress, composed>>

\* storeKey(fingerprint, name, email, publicKey, null) is called with no
\* other keystore call pending: the record is built and the call waits for
\* openDb
StoreKeyIngress ==
  /\ ingress.pc = "done"
  /\ nops < MaxOps
  /\ \E fp \in IngressFingerprints :
       ingress' = [op |-> "storeKey", fingerprint |-> fp, pc |-> "put", outcome |-> "ok"]
  /\ nops' = nops + 1
  /\ UNCHANGED <<variant, session, cachedWrappingKey, sessionStorage, db, calls,
                 settled, nextKey, keys, importing, importError, returned, hist>>
  /\ UNCHANGED composed

\* its readwrite transaction completes: store.put(record)
StoreKeyIngressPut ==
  /\ ingress.op = "storeKey"
  /\ ingress.pc = "put"
  /\ LET user == CHOOSE u \in UserIds : TRUE
     IN  db' = Put(db, StoredKey(ingress.fingerprint, user.name, user.email,
                                 Str(<<80>>), Null, Null, FALSE, Now))
  /\ ingress' = [ingress EXCEPT !.pc = "done"]
  /\ UNCHANGED <<variant, session, cachedWrappingKey, sessionStorage, calls,
                 settled, nextKey, nops, keys, importing, importError, returned, hist>>
  /\ UNCHANGED composed

\* a credential-store operation composes the secrets-file path of a key
SecretKeyPathIngress ==
  /\ ingress.pc = "done"
  /\ nops < MaxOps
  /\ \E fp \in IngressFingerprints :
       LET r == SecretKeyPath(fp)
       IN  /\ ingress' = [op |-> "secret_key_path", fingerprint |-> fp, pc |-> "done",
                          outcome |-> r.outcome]
           /\ composed' = IF r.outcome = "ok" THEN composed \cup {r.path} ELSE composed
  /\ nops' = nops + 1
  /\ UNCHANGED <<variant, session, cachedWrappingKey, sessionStorage, db, calls,
                 settled, nextKey, keys, importing, importError, returned, hist>>

IngressInit ==
  /\ ingress = NoIngress
  /\ composed = {}

\* ====================================================== PassphraseCache
Passphrases == {<<112>>, <<113>>}

\* an entry of the cache
CacheEntry(bytes, stored_at) == [passphrase |-> bytes, stored_at |-> stored_at]

VARIABLES
  entries,            \* PassphraseCache.entries: fingerprint -> entry
  ttl,                \* PassphraseCache.ttl
  clock,              \* the monotonic clock Instant::now() reads
  deadlines,          \* history: fingerprint -> the ttl in force when its entry was inserted
  cacheOp             \* the cache operation that ran last, and its result

cacheVars == <<entries, ttl, clock, deadlines, cacheOp>>

NoCacheOp == [op |-> "none", fingerprint |-> "", result |-> Null, expired |-> FALSE,
              found |-> FALSE, due |-> FALSE]

\* e.stored_at.elapsed() >= self.ttl
IsExpired(e) == clock - e.stored_at >= ttl

\* get as it was before the fix: None for an expired entry, which is kept
GetKeepsExpired(fingerprint) ==
  LET expired == fingerprint \in DOMAIN entries /\ IsExpired(entries[fingerprint])
  IN  [entries |-> entries,
       result |-> IF fingerprint \in DOMAIN entries /\ ~expired
                  THEN Uint8Array(entries[fingerprint].passphrase) ELSE Null]

\* PassphraseCache::get(&mut self, fingerprint): the entries it leaves and
\* what it returns
PassphraseCacheGet(fingerprint) ==
  LET expired == fingerprint \in DOMAIN entries /\ IsExpired(entries[fingerprint])
  IN  IF expired
      THEN [entries |-> [fp \in DOMAIN entries \ {fingerprint} |-> entries[fp]],
            result |-> Null]
      ELSE [entries |-> entries,
            result |-> IF fingerprint \in DOMAIN entries
                       THEN Uint8Array(entries[fingerprint].passphrase) ELSE Null]

\* a command asks the cache for the passphrase of a key
CacheGet ==
  \E fp \in Fingerprints :
    LET r == PassphraseCacheGet(fp)
    IN  /\ entries' = r.entries
        /\ cacheOp' = [op |-> "get", fingerprint |-> fp, result |-> r.result,
                       expired |-> fp \in DOMAIN entries /\ IsExpired(entries[fp]),
                       found |-> fp \in DOMAIN entries,
                       due |-> /\ fp \in DOMAIN entries
                               /\ clock - entries[fp].stored_at >= deadlines[fp]]
        /\ UNCHANGED <<ttl, clock, deadlines>>

\* a passphrase the user typed is cached under its key, stamped with now
CacheStore ==
  \E fp \in Fingerprints, p \in Passphrases :
    /\ entries' = [f \in DOMAIN entries \cup {fp} |->
                     IF f = fp THEN CacheEntry(p, clock) ELSE entries[f]]
    /\ deadlines' = [deadlines EXCEPT ![fp] = ttl]
    /\ cacheOp' = [NoCacheOp EXCEPT !.op = "store", !.fingerprint = fp]
    /\ UNCHANGED <<ttl, clock>>

\* handleClearCache(): clearPassphraseCache() empties the cache
ClearAll ==
  /\ entries' = <<>>
  /\ cacheOp' = [NoCacheOp EXCEPT !.op = "clear_all"]
  /\ UNCHANGED <<ttl, clock, deadlines>>

\* time passes
CacheTick ==
  /\ clock < MaxTime
  /\ clock' = clock + 1
  /\ cacheOp' = [NoCacheOp EXCEPT !.op = "tick"]
  /\ UNCHANGED <<entries, ttl, deadlines>>

\* update_settings applies passphrase_cache_secs: set_ttl(ttl)
SetTtl ==
  /\ \E t \in 1..MaxTtl :
       /\ t # ttl
       /\ ttl' = t
  /\ cacheOp' = [NoCacheOp EXCEPT !.op = "set_ttl"]
  /\ UNCHANGED <<entries, clock, deadlines>>

CacheInit ==
  /\ entries = <<>>
  /\ ttl \in 1..MaxTtl
  /\ clock = 0
  /\ deadlines = [fp \in Fingerprints |-> 0]
  /\ cacheOp = NoCacheOp

\* ------------------------------------------------- transfer passphrase
\* keychainpgp-keys sync.rs: the passphrase that protects a key bundle.
\* Each group is a random u16, discarded when it is >= 60000 and otherwise
\* reduced modulo 10000 and written as four digits.
U16 == 0..65535
RejectFrom == 60000
GroupModulus == 10000
GroupCount == 9

AcceptsAll(v) == TRUE

Accepted(v) == v < RejectFrom

GroupValue(v) == v % GroupModulus

\* format!("{:04}", n)
Format04(n) ==
  <<Digits[((n \div 1000) % 10) + 1], Digits[((n \div 100) % 10) + 1],
    Digits[((n \div 10) % 10) + 1], Digits[(n % 10) + 1]>>

NoSample == -1

VARIABLES
  sample,       \* the u16 the random source returned last, NoSample before
  lastGroup,    \* the text of the group that sample produced, <<>> if none
  nGroups,      \* groups written to the passphrase so far
  hyphens,      \* separators written so far
  passLen       \* characters written so far

passVars == <<sample, lastGroup, nGroups, hyphens, passLen>>

\* the generating loop draws the next value from the random source
DrawSample ==
  /\ nGroups < GroupCount
  /\ sample = NoSample
  /\ \E v \in U16 :
       /\ sample' = v
       /\ lastGroup' = IF Accepted(v) THEN Format04(GroupValue(v)) ELSE <<>>
  /\ UNCHANGED <<nGroups, hyphens, passLen>>

\* ... and discards it or appends its group, after a "-" unless it is the first
PushGroup ==
  /\ sample # NoSample
  /\ IF Accepted(sample)
     THEN /\ nGroups' = nGroups + 1
          /\ hyphens' = IF nGroups > 0 THEN hyphens + 1 ELSE hyphens
          /\ passLen' = passLen + (IF nGroups > 0 THEN 1 ELSE 0) + Len(lastGroup)
     ELSE UNCHANGED <<nGroups, hyphens, passLen>>
  /\ sample' = NoSample
  /\ lastGroup' = <<>>

\* the next export starts a new passphrase
GenerateAgain ==
  /\ nGroups = GroupCount
  /\ UNCHANGED <<sample, lastGroup>>
  /\ nGroups' = 0
  /\ hyphens' = 0
  /\ passLen' = 0

PassInit ==
  /\ sample = NoSample
  /\ lastGroup = <<>>
  /\ nGroups = 0
  /\ hyphens = 0
  /\ passLen = 0

\* ------------------------------------------------- clipboard auto-clear
\* clipboardStore.scheduleAutoClear and the timer it sets.  Time is counted
\* in seconds; a timer is its handle, the delay it was set with and the
\* seconds that remain.
MaxTimers == 3
MaxSchedules == 3

OpsecClearDelay == 10
DelayChoices == {5, 12}
TimerIds == 1..MaxTimers
NoTimer == 0

Timer(id, delaySecs) == [id |-> id, delaySecs |-> delaySecs, remaining |-> delaySecs]

NoSchedule == [called |-> FALSE, isOpsec |-> FALSE, enabled |-> FALSE,
               delay_secs |-> 0, cleared |-> NoTimer, timer |-> NoTimer]

VARIABLES
  auto_clear_delay_secs,  \* settingsStore.settings.auto_clear_delay_secs
  autoClearTimer,         \* let autoClearTimer = null: the handle kept
  timeouts,               \* setTimeout: the timers set and not yet run
  clearing,               \* callbacks at `await clearClipboard()`
  clearInvoked,           \* history: clearClipboard was invoked since the
                          \* last call that set a timer
  lastSchedule,           \* history: the last scheduleAutoClear call
  nSchedules              \* scheduleAutoClear calls so far

clipVars == <<auto_clear_delay_secs, autoClearTimer, timeouts, clearing,
              clearInvoked, lastSchedule, nSchedules>>

\* handles in use: a timer that is set, or a callback that still runs
UsedTimers == {t.id : t \in timeouts} \cup clearing
FreshTimer == CHOOSE id \in TimerIds : id \notin UsedTimers /\ id # autoClearTimer

DelayOfSetting(isOpsec, delay_secs) == delay_secs

\* const delaySecs = isOpsec ? 10 : s.auto_clear_delay_secs
DelaySecs(isOpsec, delay_secs) == IF isOpsec THEN OpsecClearDelay ELSE delay_secs

\* scheduleAutoClear(): clearTimeout on the handle kept, then a new timer
\* unless neither OPSEC mode nor auto_clear_enabled asks for one
ScheduleAutoClear ==
  /\ nSchedules < MaxSchedules
  /\ \E id \in TimerIds : id \notin UsedTimers /\ id # autoClearTimer
  /\ nSchedules' = nSchedules + 1
  /\ LET isOpsec == settings.opsec_mode
         kept == {t \in timeouts : t.id # autoClearTimer}
         delaySecs == DelaySecs(isOpsec, auto_clear_delay_secs)
     IN  IF ~isOpsec /\ ~settings.auto_clear_enabled
         THEN /\ timeouts' = kept
              /\ autoClearTimer' = NoTimer
              /\ lastSchedule' = [called |-> TRUE, isOpsec |-> isOpsec,
                                  enabled |-> settings.auto_clear_enabled,
                                  delay_secs |-> auto_clear_delay_secs,
                                  cleared |-> autoClearTimer, timer |-> NoTimer]
              /\ UNCHANGED clearInvoked
         ELSE /\ timeouts' = kept \cup {Timer(FreshTimer, delaySecs)}
              /\ autoClearTimer' = FreshTimer
              /\ lastSchedule' = [called |-> TRUE, isOpsec |-> isOpsec,
                                  enabled |-> settings.auto_clear_enabled,
                                  delay_secs |-> auto_clear_delay_secs,
                                  cleared |-> autoClearTimer, timer |-> FreshTimer]
              /\ clearInvoked' = FALSE
  /\ UNCHANGED <<auto_clear_delay_secs, clearing>>

\* a second passes for every timer that is set
ClipTick ==
  /\ timeouts # {}
  /\ \A t \in timeouts : t.remaining > 0
  /\ timeouts' = {[t EXCEPT !.remaining = @ - 1] : t \in timeouts}
  /\ UNCHANGED <<auto_clear_delay_secs, autoClearTimer, clearing, clearInvoked,
                 lastSchedule, nSchedules>>

\* a timer is due: its callback runs up to `await clearClipboard()`
TimerFires ==
  /\ \E t \in timeouts :
       /\ t.remaining = 0
       /\ timeouts' = timeouts \ {t}
       /\ clearing' = clearing \cup {t.id}
  /\ clearInvoked' = TRUE
  /\ UNCHANGED <<auto_clear_delay_secs, autoClearTimer, lastSchedule, nSchedules>>

\* clearClipboard has settled, resolved or rejected: autoClearTimer = null
ClearSettled ==
  /\ \E id \in clearing : clearing' = clearing \ {id}
  /\ autoClearTimer' = NoTimer
  /\ UNCHANGED <<auto_clear_delay_secs, timeouts, clearInvoked, lastSchedule, nSchedules>>

\* settingsStore.save(partial) through its await: the settings are kept and
\* the update_settings command has run
SaveSettled(next) ==
  /\ settings' = next
  /\ settingsFile' = IF opsecEnabled THEN settingsFile ELSE next
  /\ UNCHANGED updates

\* the delay input of the settings view:
\* save({ auto_clear_delay_secs: parseInt(value) || 30 })
SaveDelay ==
  /\ \E d \in DelayChoices : d # auto_clear_delay_secs /\ auto_clear_delay_secs' = d
  /\ SaveSettled(settings)
  /\ UNCHANGED <<toggling, opsecEnabled, keyDatabase, credentialStore,
                 opsec_secret_keys, imported, opsecWrites>>
  /\ UNCHANGED <<autoClearTimer, timeouts, clearing, clearInvoked, lastSchedule, nSchedules>>

\* toggle("auto_clear_enabled"), through the save
ToggleSettled ==
  /\ SaveSettled([settings EXCEPT !.auto_clear_enabled = ~@])
  /\ UNCHANGED <<toggling, opsecEnabled, keyDatabase, credentialStore,
                 opsec_secret_keys, imported, opsecWrites>>
  /\ UNCHANGED clipVars

\* toggleOpsecMode(), through the save and the backend call after it
ToggleOpsecModeSettled ==
  /\ toggling.at = "idle"
  /\ LET newValue == ~settings.opsec_mode
     IN  /\ SaveSettled([settings EXCEPT !.opsec_mode = newValue])
         /\ opsecEnabled' = newValue
         /\ opsec_secret_keys' = IF newValue THEN opsec_secret_keys ELSE {}
  /\ UNCHANGED <<toggling, keyDatabase, credentialStore, imported, opsecWrites>>
  /\ UNCHANGED clipVars

ClipInit ==
  /\ auto_clear_delay_secs \in DelayChoices
  /\ autoClearTimer = NoTimer
  /\ timeouts = {}
  /\ clearing = {}
  /\ clearInvoked = FALSE
  /\ lastSchedule = NoSchedule
  /\ nSchedules = 0

\* ------------------------------------------------- decrypted viewer
\* appStore's modal slot and the DecryptedViewer component that App.svelte
\* renders while activeModal is "decrypted-viewer".  An opening is named by
\* the number of the openModal call that made it.
MaxOpens == 3

ViewTimeouts == {0, 2, 3}
NoModal == "null"
NoViewer == [mounted |-> FALSE, isOpsec |-> FALSE, viewTimeout |-> 0,
             countdown |-> 0, timerId |-> FALSE, plaintext |-> 0, ticks |-> 0]
NoClose == [by |-> "none", opening |-> 0, sinceOpen |-> 0, viewTimeout |-> 0]

VARIABLES
  opsec_view_timeout_secs,  \* settingsStore.settings.opsec_view_timeout_secs
  activeModal,              \* appStore: let activeModal = $state(null)
  modalProps,               \* appStore: modalProps, the opening they came with
  viewer,                   \* the DecryptedViewer instance, if one is mounted
  sinceOpen,                \* history: seconds ticked since the last openModal
  lastClose                 \* history: the last closeModal call

viewerVars == <<opsec_view_timeout_secs, activeModal, modalProps, viewer,
                sinceOpen, lastClose>>

\* component creation and onMount: isOpsec, viewTimeout and plaintext are
\* read once; the interval is set when isOpsec && viewTimeout > 0
Mounted(isOpsec, viewTimeout, plaintext) ==
  [mounted |-> TRUE, isOpsec |-> isOpsec, viewTimeout |-> viewTimeout,
   countdown |-> IF isOpsec /\ viewTimeout > 0 THEN viewTimeout ELSE 0,
   timerId |-> isOpsec /\ viewTimeout > 0, plaintext |-> plaintext, ticks |-> 0]

\* the {#if} chain of App.svelte after activeModal was assigned `modal`: the
\* viewer is created when the branch is entered, destroyed (onDestroy:
\* clearInterval) when it is left, and kept while the branch stays the same
Render(modal, props) ==
  IF modal = "decrypted-viewer"
  THEN IF viewer.mounted
       THEN viewer
       ELSE Mounted(settings.opsec_mode, opsec_view_timeout_secs, props)
  ELSE NoViewer

\* openModal(type, props), from handleDecrypt and from the other views
OpenModal ==
  /\ modalProps < MaxOpens
  /\ \E type \in {"decrypted-viewer", "error"} :
       /\ activeModal' = type
       /\ modalProps' = modalProps + 1
       /\ viewer' = Render(type, modalProps + 1)
  /\ sinceOpen' = 0
  /\ UNCHANGED <<opsec_view_timeout_secs, lastClose>>

\* the close button of a modal: appStore.closeModal()
CloseModal ==
  /\ activeModal # NoModal
  /\ activeModal' = NoModal
  /\ viewer' = Render(NoModal, modalProps)
  /\ lastClose' = [by |-> "button", opening |-> modalProps,
                   sinceOpen |-> sinceOpen, viewTimeout |-> viewer.viewTimeout]
  /\ UNCHANGED <<opsec_view_timeout_secs, modalProps, sinceOpen>>

\* the setInterval callback: countdown--, and at 0 clearInterval and closeModal
CountdownTick ==
  /\ viewer.timerId
  /\ sinceOpen' = sinceOpen + 1
  /\ IF viewer.countdown - 1 <= 0
     THEN /\ activeModal' = NoModal
          /\ viewer' = Render(NoModal, modalProps)
          /\ lastClose' = [by |-> "countdown", opening |-> modalProps,
                           sinceOpen |-> sinceOpen + 1,
                           viewTimeout |-> viewer.viewTimeout]
     ELSE /\ viewer' = [viewer EXCEPT !.countdown = @ - 1, !.ticks = @ + 1]
          /\ UNCHANGED <<activeModal, lastClose>>
  /\ UNCHANGED <<opsec_view_timeout_secs, modalProps>>

\* the timeout input of the settings view:
\* save({ opsec_view_timeout_secs: parseInt(value) || 30 })
SaveViewTimeout ==
  /\ \E t \in ViewTimeouts \ {0} :
       t # opsec_view_timeout_secs /\ opsec_view_timeout_secs' = t
  /\ UNCHANGED <<activeModal, modalProps, viewer, sinceOpen, lastClose>>

ViewerInit ==
  /\ opsec_view_timeout_secs \in ViewTimeouts
  /\ activeModal = NoModal
  /\ modalProps = 0
  /\ viewer = NoViewer
  /\ sinceOpen = 0
  /\ lastClose = NoClose

\* ------------------------------------------------- QR scanner singleton
\* qr-scan.ts: startContinuousScan, the cleanup it returns, the scan callback
\* and cancelScan.  A QrScanner is known by the calls made on it.
MaxScanners == 4

ScannerIds == 1..MaxScanners
NoScanner == 0
NotCreated == [created |-> FALSE, start |-> "none", stopped |-> FALSE,
               destroyed |-> FALSE, errors |-> 0]

VARIABLES
  activeScanner,    \* let activeScanner: QrScanner | null = null
  scanners,         \* every QrScanner made so far, by the order of creation
  nScanners         \* the number of scanners made: the newest one

scannerVars == <<activeScanner, scanners, nScanners>>

\* scanner.stop(); scanner.destroy();
StopAndDestroy(sc, ids) ==
  [id \in ScannerIds |->
     IF id \in ids THEN [sc[id] EXCEPT !.stopped = TRUE, !.destroyed = TRUE] ELSE sc[id]]

ReleaseAlways(id) == NoScanner

\* if (activeScanner === scanner) activeScanner = null;
ReleaseIfActive(id) == IF activeScanner = id THEN NoScanner ELSE activeScanner

\* startContinuousScan(videoEl, onScan, onError)
StartContinuousScan ==
  /\ nScanners < MaxScanners
  /\ LET scanner == nScanners + 1
         stopped == StopAndDestroy(scanners, IF activeScanner # NoScanner
                                             THEN {activeScanner} ELSE {})
     IN  /\ scanners' = [stopped EXCEPT ![scanner] =
                           [NotCreated EXCEPT !.created = TRUE, !.start = "pending"]]
         /\ activeScanner' = scanner
         /\ nScanners' = scanner

\* scanner.start() settles; a rejection goes to onError
StartSettles ==
  \E id \in ScannerIds, outcome \in {"resolved", "rejected"} :
    /\ scanners[id].created
    /\ scanners[id].start = "pending"
    /\ scanners[id].errors = 0
    /\ scanners' = [scanners EXCEPT ![id].start = outcome,
                                    ![id].errors = IF outcome = "rejected" THEN 1 ELSE 0]
    /\ UNCHANGED <<activeScanner, nScanners>>

\* the callback a scanner was made with: a code was detected, also one that
\* was in flight when the scanner was stopped
ScanCallback ==
  \E id \in ScannerIds, shouldStop \in BOOLEAN :
    /\ scanners[id].created
    /\ scanners[id].start # "rejected"
    /\ IF shouldStop
       THEN /\ scanners' = StopAndDestroy(scanners, {id})
            /\ activeScanner' = ReleaseIfActive(id)
       ELSE UNCHANGED <<scanners, activeScanner>>
    /\ UNCHANGED nScanners

\* the cleanup function that startContinuousScan returned
Cleanup ==
  \E id \in ScannerIds :
    /\ scanners[id].created
    /\ scanners' = StopAndDestroy(scanners, {id})
    /\ activeScanner' = ReleaseIfActive(id)
    /\ UNCHANGED nScanners

\* cancelScan()
CancelScan ==
  /\ scanners' = StopAndDestroy(scanners, IF activeScanner # NoScanner
                                          THEN {activeScanner} ELSE {})
  /\ activeScanner' = NoScanner
  /\ UNCHANGED nScanners

ScannerInit ==
  /\ activeScanner = NoScanner
  /\ scanners = [id \in ScannerIds |-> NotCreated]
  /\ nScanners = 0

\* ------------------------------------------------- bundle import
\* KeySyncImport: handleImport and the $effect that starts it once a scan has
\* captured both the data and the passphrase.
MaxAttempts == 3

NoCount == -1
NoAuto == [fired |-> FALSE, scanning |-> FALSE, importing |-> FALSE]
ErrorNoData == [t |-> "string", text |-> "sync_error_no_data"]
ErrorNoPassphrase == [t |-> "string", text |-> "sync_error_no_passphrase"]
ImportFailed == [t |-> "string", text |-> "String(e)"]

\* the codes shown to the camera: the two parts of a bundle and its passphrase
SyncContents == BundleContents(<<<<"a">>, <<"b">>>>) \cup PassContents

VARIABLES
  bundleImporting,    \* KeySyncImport: let importing = $state(false)
  importedCount,      \* let importedCount: number | null = $state(null)
  nAttempts,          \* history: handleImport calls that reached the backend
  autoAttempts,       \* history: those the $effect made since the last
                      \* action of the user
  lastAuto            \* history: what was in progress when the $effect last
                      \* called handleImport

syncVars == <<bundleImporting, importedCount, nAttempts, autoAttempts, lastAuto>>

\* String.prototype.trim
RECURSIVE SkipWhiteSpaceEnd(_)
SkipWhiteSpaceEnd(str) ==
  IF str # <<>> /\ str[Len(str)] = " "
  THEN SkipWhiteSpaceEnd(SubSeq(str, 1, Len(str) - 1))
  ELSE str
TrimText(str) == SkipWhiteSpaceEnd(SkipWhiteSpace(str))

\* the condition of the $effect
AutoImportDue ==
  /\ passphraseFromQr
  /\ encryptedData # <<>>
  /\ passphrase # <<>>
  /\ ~bundleImporting
  /\ importedCount = NoCount
  /\ ~scanning

\* handleImport() up to `await importKeyBundle(...)`
HandleImportStart ==
  IF TrimText(encryptedData) = <<>>
  THEN /\ error' = ErrorNoData
       /\ UNCHANGED <<bundleImporting, nAttempts>>
  ELSE IF TrimText(passphrase) = <<>>
  THEN /\ error' = ErrorNoPassphrase
       /\ UNCHANGED <<bundleImporting, nAttempts>>
  ELSE /\ error' = Null
       /\ bundleImporting' = TRUE
       /\ nAttempts' = nAttempts + 1

\* the $effect runs with its condition true: handleImport()
AutoImport ==
  /\ AutoImportDue
  /\ nAttempts < MaxAttempts
  /\ HandleImportStart
  /\ autoAttempts' = autoAttempts + 1
  /\ lastAuto' = [fired |-> TRUE, scanning |-> scanning, importing |-> bundleImporting]
  /\ UNCHANGED <<importedCount, scanning, scannedParts, totalParts, passphrase,
                 passphraseFromQr, encryptedData, delivered, nscans, produced, lastScan>>

\* the Import button (disabled while importing): handleImport()
HandleImportClick ==
  /\ ~AutoImportDue
  /\ ~bundleImporting
  /\ importedCount = NoCount
  /\ nAttempts < MaxAttempts
  /\ HandleImportStart
  /\ autoAttempts' = 0
  /\ UNCHANGED <<lastAuto, importedCount, scanning, scannedParts, totalParts, passphrase,
                 passphraseFromQr, encryptedData, delivered, nscans, produced, lastScan>>

\* importKeyBundle has resolved with the number of keys: importedCount = count,
\* keyStore.refresh(), and finally importing = false
ImportResolves ==
  /\ bundleImporting
  /\ \E count \in {0, 1} : importedCount' = count
  /\ bundleImporting' = FALSE
  /\ UNCHANGED <<nAttempts, autoAttempts, lastAuto, scanVars>>

\* importKeyBundle has rejected: error = String(e), and finally
\* importing = false
ImportRejects ==
  /\ bundleImporting
  /\ error' = ImportFailed
  /\ bundleImporting' = FALSE
  /\ UNCHANGED <<importedCount, nAttempts, autoAttempts, lastAuto>>
  /\ UNCHANGED <<scanning, scannedParts, totalParts, passphrase, passphraseFromQr,
                 encryptedData, delivered, nscans, produced, lastScan>>

\* the user starts or cancels a scan; the $effect has run before the next
\* event is handled
SyncStartScan ==
  /\ ~AutoImportDue
  /\ importedCount = NoCount
  /\ StartScan
  /\ autoAttempts' = 0
  /\ UNCHANGED <<bundleImporting, importedCount, nAttempts, lastAuto>>

SyncCancelScan ==
  /\ ~AutoImportDue
  /\ HandleCancelScan
  /\ autoAttempts' = 0
  /\ UNCHANGED <<bundleImporting, importedCount, nAttempts, lastAuto>>

\* the camera hands a code to the overlay
SyncScanResult ==
  /\ ~AutoImportDue
  /\ \E content \in SyncContents : HandleScanResult(content)
  /\ UNCHANGED syncVars

SyncInit ==
  /\ bundleImporting = FALSE
  /\ importedCount = NoCount
  /\ nAttempts = 0
  /\ autoAttempts = 0
  /\ lastAuto = NoAuto

\* ------------------------------------------------- dispatched actions
\* appStore.dispatchAction / clearAction, the $effect of HomeView that
\* consumes the pending action, and what decides whether HomeView is rendered.
MaxDispatch == 3

AppActions == {"encrypt", "decrypt", "sign", "verify"}
Views == {"home", "keys", "settings"}
NoAction == "null"

VARIABLES
  currentView,      \* appStore: let currentView = $state("home")
  pendingAction,    \* appStore: let pendingAction = $state(null)
  initialized,      \* App: let initialized = $state(false)
  hasOwnKey,        \* keyStore.hasOwnKey
  dispatched,       \* history: the actions handed to dispatchAction, in order
  handled           \* history: the HomeView handlers that ran, in order

actionVars == <<currentView, pendingAction, initialized, hasOwnKey, dispatched, handled>>

\* App.svelte renders <HomeView /> when initialized, not onboarding and the
\* current view is "home"
HomeViewRendered(init, ownKey, view) == init /\ ownKey /\ view = "home"

\* the $effect of HomeView once the updates are flushed: with HomeView
\* rendered and an action pending, clearAction() and then the handler
Flush(init, ownKey, view, action) ==
  IF HomeViewRendered(init, ownKey, view) /\ action # NoAction
  THEN /\ pendingAction' = NoAction
       /\ handled' = Append(handled, action)
  ELSE /\ pendingAction' = action
       /\ UNCHANGED handled

\* a hotkey or a tray entry: appStore.dispatchAction(action)
DispatchAction ==
  /\ Len(dispatched) < MaxDispatch
  /\ \E action \in AppActions :
       /\ dispatched' = Append(dispatched, action)
       /\ currentView' = "home"
       /\ Flush(initialized, hasOwnKey, "home", action)
  /\ UNCHANGED <<initialized, hasOwnKey>>

\* onMount of App has registered the hotkeys and the tray listener and is done
AppMounted ==
  /\ ~initialized
  /\ initialized' = TRUE
  /\ Flush(TRUE, hasOwnKey, currentView, pendingAction)
  /\ UNCHANGED <<currentView, hasOwnKey, dispatched>>

\* onboarding ends: the key store has an own key
OwnKeyAdded ==
  /\ ~hasOwnKey
  /\ hasOwnKey' = TRUE
  /\ Flush(initialized, TRUE, currentView, pendingAction)
  /\ UNCHANGED <<currentView, initialized, dispatched>>

\* the navigation bar: appStore.currentView = view
Navigate ==
  /\ initialized /\ hasOwnKey
  /\ \E view \in Views :
       /\ view # currentView
       /\ currentView' = view
       /\ Flush(initialized, hasOwnKey, view, pendingAction)
  /\ UNCHANGED <<initialized, hasOwnKey, dispatched>>

\* App's onMount has registered the hotkeys and awaits the tray listener
ActionInit ==
  /\ currentView = "home"
  /\ pendingAction = NoAction
  /\ initialized = FALSE
  /\ hasOwnKey = FALSE
  /\ dispatched = <<>>
  /\ handled = <<>>

\* ------------------------------------------------- encrypt-to-self keys
\* SettingsView.toggleSelfKey over settings.encrypt_to_self_keys, an array of
\* fingerprints in which the empty array stands for every own key.
\* the own keys there can be
SelfFingerprints == {"A1B2", "C3D4", "E5F6"}

NoSelfToggle == [called |-> FALSE, fp |-> "", before |-> {}, own |-> {}]

VARIABLES
  encrypt_to_self_keys,   \* settingsStore.settings.encrypt_to_self_keys
  storeOwnKeys,           \* keyStore.ownKeys.map(k => k.fingerprint)
  lastSelfToggle          \* history: the last toggleSelfKey call, and the
                          \* effective selection it started from

selfVars == <<encrypt_to_self_keys, storeOwnKeys, lastSelfToggle>>

Includes(array, x) == \E i \in 1..Len(array) : array[i] = x
Filter(array, x) == SelectSeq(array, LAMBDA k : k # x)

\* getInitialSelection() of the recipient selector, and the `checked` of the
\* checkboxes: the stored keys, or every own key when none is stored
SelfSelection(selfKeys, own) ==
  IF Len(selfKeys) > 0
  THEN {selfKeys[i] : i \in 1..Len(selfKeys)}
  ELSE {own[i] : i \in 1..Len(own)}

\* toggleSelfKey(fp): what is saved as encrypt_to_self_keys
ToggledSelfKeys(selfKeys, own, fp) ==
  LET current == IF Len(selfKeys) = 0 THEN own ELSE selfKeys
      next == IF Includes(current, fp) THEN Filter(current, fp) ELSE Append(current, fp)
      isAll == Len(own) > 0 /\ \A i \in 1..Len(own) : Includes(next, own[i])
  IN  IF isAll THEN <<>> ELSE next

\* the checkbox of an own key
ToggleSelfKey ==
  /\ \E i \in 1..Len(storeOwnKeys) :
       /\ encrypt_to_self_keys' =
            ToggledSelfKeys(encrypt_to_self_keys, storeOwnKeys, storeOwnKeys[i])
       /\ lastSelfToggle' =
            [called |-> TRUE, fp |-> storeOwnKeys[i],
             before |-> SelfSelection(encrypt_to_self_keys, storeOwnKeys),
             own |-> {storeOwnKeys[j] : j \in 1..Len(storeOwnKeys)}]
  /\ UNCHANGED storeOwnKeys

\* an own key is generated or imported: keyStore.refresh() lists it
OwnKeyListed ==
  /\ \E fp \in SelfFingerprints :
       /\ ~Includes(storeOwnKeys, fp)
       /\ storeOwnKeys' = Append(storeOwnKeys, fp)
  /\ lastSelfToggle' = NoSelfToggle
  /\ UNCHANGED encrypt_to_self_keys

\* an own key is deleted: the list loses it, the setting keeps what it has
OwnKeyUnlisted ==
  /\ \E i \in 1..Len(storeOwnKeys) :
       storeOwnKeys' = Filter(storeOwnKeys, storeOwnKeys[i])
  /\ lastSelfToggle' = NoSelfToggle
  /\ UNCHANGED encrypt_to_self_keys

SelfInit ==
  /\ encrypt_to_self_keys = <<>>
  /\ storeOwnKeys = <<>>
  /\ lastSelfToggle = NoSelfToggle

\* the state of the remaining parts of the user interface
shellVars == <<passVars, clipVars, viewerVars, scannerVars, syncVars, actionVars,
              selfVars>>

ShellInit ==
  /\ PassInit
  /\ ClipInit
  /\ ViewerInit
  /\ ScannerInit
  /\ SyncInit
  /\ ActionInit
  /\ SelfInit

\* the two delays as settingsStore.load() found them, where no claim about
\* them is checked
LoadedSettings ==
  /\ auto_clear_delay_secs = 12
  /\ opsec_view_timeout_secs = 2

\* ------------------------------------------------------------------ spec
KeystoreInit ==
  /\ variant \in Variants
  /\ session = 1
  /\ cachedWrappingKey = Null
  /\ sessionStorage = Null
  /\ db = {}
  /\ calls = [c \in Calls |-> Idle]
  /\ settled = Idle
  /\ nextKey = 1
  /\ nops = 0
  /\ keys = Array(<<>>)
  /\ importing = FALSE
  /\ importError = ""
  /\ returned = {}
  /\ hist = [fp \in Fingerprints |->
               [deleted |-> FALSE, stored |-> NoExpect, puts |-> 0, group |-> NoGroup]]

\* the state of the components outside the keystore
uiVars == <<scanVars, decryptVars, opsecVars, ingressVars, cacheVars, shellVars>>

Init ==
  /\ KeystoreInit
  /\ ScanInit
  /\ DecryptViewInit
  /\ OpsecInit
  /\ IngressInit
  /\ CacheInit /\ ttl = MaxTtl
  /\ ShellInit /\ LoadedSettings

Next ==
  \/ \E c \in Calls : StoreKey(c) /\ UNCHANGED uiVars
  \/ \E c \in Calls : HandleImport(c) /\ UNCHANGED uiVars
  \/ \E c \in Calls : GenerateKeyDone(c) /\ UNCHANGED uiVars
  \/ \E c \in Calls : EncryptDone(c) /\ UNCHANGED uiVars
  \/ \E c \in Calls : PutDone(c) /\ UNCHANGED uiVars
  \/ \E c \in Calls : RefreshDone(c) /\ UNCHANGED uiVars
  \/ \E c \in Calls : GetKey(c) /\ UNCHANGED uiVars
  \/ \E c \in Calls : GetSecretKey(c) /\ UNCHANGED uiVars
  \/ \E c \in Calls : GetKeyDone(c) /\ UNCHANGED uiVars
  \/ \E c \in Calls : DecryptDone(c) /\ UNCHANGED uiVars
  \/ \E c \in Calls : ListKeys(c) /\ UNCHANGED uiVars
  \/ \E c \in Calls : GetAllDone(c) /\ UNCHANGED uiVars
  \/ \E c \in Calls : DeleteKey(c) /\ UNCHANGED uiVars
  \/ \E c \in Calls : DeleteDone(c) /\ UNCHANGED uiVars
  \/ NewPage /\ UNCHANGED uiVars
  \/ Tamper /\ UNCHANGED uiVars

Spec == Init /\ [][Next]_<<vars, uiVars>>

\* the sync-import dialog on its own: nothing else is touched
scanRest == <<vars, decryptVars, opsecVars, ingressVars, cacheVars, shellVars>>

ScanNext ==
  \/ StartScan /\ UNCHANGED scanRest
  \/ HandleCancelScan /\ UNCHANGED scanRest
  \/ \E content \in Contents : HandleScanResult(content) /\ UNCHANGED scanRest

InitScan == Init /\ variant = "memory"

SpecScan == InitScan /\ [][ScanNext]_<<vars, uiVars>>

\* the decrypt view over a keystore that imports have filled
decryptRest == <<scanVars, opsecVars, ingressVars, cacheVars, shellVars>>

InitDecrypt ==
  /\ KeystoreAfterImports
  /\ DecryptViewInit
  /\ ScanInit
  /\ OpsecInit
  /\ IngressInit
  /\ CacheInit /\ ttl = MaxTtl
  /\ ShellInit /\ LoadedSettings

DecryptNext ==
  \/ HandleDecrypt /\ UNCHANGED decryptRest
  \/ DecryptListKeysDone /\ UNCHANGED decryptRest
  \/ DecryptGetSecretKeyDone /\ UNCHANGED decryptRest

SpecDecrypt == InitDecrypt /\ [][DecryptNext]_<<vars, uiVars>>

\* the settings view and the backend commands behind it
opsecRest == <<vars, scanVars, decryptVars, ingressVars, cacheVars, shellVars>>

OpsecNext ==
  \/ Toggle /\ UNCHANGED opsecRest
  \/ ToggleOpsecMode /\ UNCHANGED opsecRest
  \/ UpdateSettings /\ UNCHANGED opsecRest
  \/ EnableOpsecMode /\ UNCHANGED opsecRest
  \/ DisableOpsecMode /\ UNCHANGED opsecRest
  \/ StoreKeyCommand /\ UNCHANGED opsecRest

InitOpsec == Init /\ variant = "memory"

SpecOpsec == InitOpsec /\ [][OpsecNext]_<<vars, uiVars>>

\* fingerprints coming in at the keystore and at the credential store
ingressRest == <<scanVars, decryptVars, opsecVars, cacheVars, shellVars>>

InitIngress == Init /\ variant = "memory"

IngressNext ==
  \/ StoreKeyIngress /\ UNCHANGED ingressRest
  \/ StoreKeyIngressPut /\ UNCHANGED ingressRest
  \/ SecretKeyPathIngress /\ UNCHANGED ingressRest

SpecIngress == InitIngress /\ [][IngressNext]_<<vars, uiVars>>

\* the passphrase cache under the commands that use it
cacheRest == <<vars, scanVars, decryptVars, opsecVars, ingressVars, shellVars>>

InitCache ==
  /\ KeystoreInit /\ variant = "memory"
  /\ ScanInit
  /\ DecryptViewInit
  /\ OpsecInit
  /\ IngressInit
  /\ CacheInit
  /\ ShellInit /\ LoadedSettings

CacheNext ==
  \/ CacheGet /\ UNCHANGED cacheRest
  \/ CacheStore /\ UNCHANGED cacheRest
  \/ ClearAll /\ UNCHANGED cacheRest
  \/ CacheTick /\ UNCHANGED cacheRest
  \/ SetTtl /\ UNCHANGED cacheRest

SpecCache == InitCache /\ [][CacheNext]_<<vars, uiVars>>

\* the start of a session that touches none of the keystore variants
BaseInit ==
  /\ KeystoreInit /\ variant = "memory"
  /\ ScanInit
  /\ DecryptViewInit
  /\ OpsecInit
  /\ IngressInit
  /\ CacheInit /\ ttl = MaxTtl
  /\ ShellInit

\* generating transfer passphrases, one group at a time
passRest == <<vars, scanVars, decryptVars, opsecVars, ingressVars, cacheVars, clipVars,
             viewerVars, scannerVars, syncVars, actionVars, selfVars>>

InitPass == Init /\ variant = "memory"

PassNext ==
  \/ DrawSample /\ UNCHANGED passRest
  \/ PushGroup /\ UNCHANGED passRest
  \/ GenerateAgain /\ UNCHANGED passRest

SpecPass == InitPass /\ [][PassNext]_<<vars, uiVars>>

\* the clipboard timer under the settings that steer it
clipRest == <<vars, scanVars, decryptVars, ingressVars, cacheVars, passVars, viewerVars,
             scannerVars, syncVars, actionVars, selfVars>>

InitClip == BaseInit /\ opsec_view_timeout_secs = 2

ClipNext ==
  \/ ScheduleAutoClear /\ UNCHANGED <<opsecVars, clipRest>>
  \/ ClipTick /\ UNCHANGED <<opsecVars, clipRest>>
  \/ TimerFires /\ UNCHANGED <<opsecVars, clipRest>>
  \/ ClearSettled /\ UNCHANGED <<opsecVars, clipRest>>
  \/ SaveDelay /\ UNCHANGED clipRest
  \/ ToggleSettled /\ UNCHANGED clipRest
  \/ ToggleOpsecModeSettled /\ UNCHANGED clipRest

SpecClip == InitClip /\ [][ClipNext]_<<vars, uiVars>>

\* ... with time passing, due timers running and backend calls settling
SpecClipFair ==
  /\ SpecClip
  /\ WF_<<vars, uiVars>>(ClipTick /\ UNCHANGED <<opsecVars, clipRest>>)
  /\ WF_<<vars, uiVars>>(TimerFires /\ UNCHANGED <<opsecVars, clipRest>>)
  /\ WF_<<vars, uiVars>>(ClearSettled /\ UNCHANGED <<opsecVars, clipRest>>)

\* the decrypted viewer, the modals around it and the OPSEC settings
viewerRest == <<vars, scanVars, decryptVars, ingressVars, cacheVars, passVars, scannerVars,
               syncVars, actionVars, selfVars>>

InitViewer == BaseInit /\ auto_clear_delay_secs = 12

ViewerNext ==
  \/ OpenModal /\ UNCHANGED <<opsecVars, clipVars, viewerRest>>
  \/ CloseModal /\ UNCHANGED <<opsecVars, clipVars, viewerRest>>
  \/ CountdownTick /\ UNCHANGED <<opsecVars, clipVars, viewerRest>>
  \/ SaveViewTimeout /\ UNCHANGED <<opsecVars, clipVars, viewerRest>>
  \/ ToggleOpsecModeSettled /\ UNCHANGED <<viewerVars, viewerRest>>

SpecViewer == InitViewer /\ [][ViewerNext]_<<vars, uiVars>>

\* the scanners that the scan overlays start and stop
scannerRest == <<vars, scanVars, decryptVars, opsecVars, ingressVars, cacheVars,
                 passVars, clipVars, viewerVars, syncVars, actionVars, selfVars>>

InitScanner == Init /\ variant = "memory"

ScannerNext ==
  \/ StartContinuousScan /\ UNCHANGED scannerRest
  \/ StartSettles /\ UNCHANGED scannerRest
  \/ ScanCallback /\ UNCHANGED scannerRest
  \/ Cleanup /\ UNCHANGED scannerRest
  \/ CancelScan /\ UNCHANGED scannerRest

SpecScanner == InitScanner /\ [][ScannerNext]_<<vars, uiVars>>

\* the sync-import dialog with its import and the $effect
syncRest == <<vars, decryptVars, opsecVars, ingressVars, cacheVars, passVars,
              clipVars, viewerVars, scannerVars, actionVars, selfVars>>

InitSync == BaseInit /\ LoadedSettings

SyncNext ==
  \/ SyncStartScan /\ UNCHANGED syncRest
  \/ SyncCancelScan /\ UNCHANGED syncRest
  \/ SyncScanResult /\ UNCHANGED syncRest
  \/ AutoImport /\ UNCHANGED syncRest
  \/ HandleImportClick /\ UNCHANGED syncRest
  \/ ImportResolves /\ UNCHANGED syncRest
  \/ ImportRejects /\ UNCHANGED syncRest

SpecSync == InitSync /\ [][SyncNext]_<<vars, uiVars>>

\* the OPSEC switch of the settings view with a backend that can fail
toggleRest == <<vars, scanVars, decryptVars, ingressVars, cacheVars, shellVars>>

InitToggle == BaseInit /\ LoadedSettings

ToggleNext ==
  \/ Toggle /\ UNCHANGED toggleRest
  \/ ToggleOpsecMode /\ UNCHANGED toggleRest
  \/ UpdateSettings /\ UNCHANGED toggleRest
  \/ EnableOpsecMode /\ UNCHANGED toggleRest
  \/ DisableOpsecMode /\ UNCHANGED toggleRest
  \/ OpsecCallRejects /\ UNCHANGED toggleRest

SpecToggle == InitToggle /\ [][ToggleNext]_<<vars, uiVars>>

\* hotkeys and tray entries against the views of the application
actionRest == <<vars, scanVars, decryptVars, opsecVars, ingressVars, cacheVars,
                passVars, clipVars, viewerVars, scannerVars, syncVars, selfVars>>

InitAction == BaseInit /\ LoadedSettings

ActionNext ==
  \/ DispatchAction /\ UNCHANGED actionRest
  \/ AppMounted /\ UNCHANGED actionRest
  \/ OwnKeyAdded /\ UNCHANGED actionRest
  \/ Navigate /\ UNCHANGED actionRest

SpecAction == InitAction /\ [][ActionNext]_<<vars, uiVars>>

\* the encrypt-to-self checkboxes over a changing list of own keys
selfRest == <<vars, scanVars, decryptVars, opsecVars, ingressVars, cacheVars,
              passVars, clipVars, viewerVars, scannerVars, syncVars, actionVars>>

InitSelf == BaseInit /\ LoadedSettings

SelfNext ==
  \/ ToggleSelfKey /\ UNCHANGED selfRest
  \/ OwnKeyListed /\ UNCHANGED selfRest
  \/ OwnKeyUnlisted /\ UNCHANGED selfRest

SpecSelf == InitSelf /\ [][SelfNext]_<<vars, uiVars>>

\* ============================================================ properties
\* every CryptoKey object the page holds
KeyObjects ==
  {k \in {cachedWrappingKey, settled.key} \cup {calls[c].key : c \in Calls} : k # Null}

\* the wrapped secret of record r cannot be decrypted with key: the key has
\* changed, or the ciphertext or the nonce is tampered or malformed
Undecryptable(r, key) ==
  \/ ~IsBase64(r.encryptedSecretKey)
  \/ ~IsBase64(r.iv)
  \/ ~Atob(r.encryptedSecretKey).intact
  \/ Atob(r.encryptedSecretKey).k # key.id
  \/ Atob(r.iv) # Iv(Atob(r.encryptedSecretKey).iv)

\* getSecretKey(r.fingerprint) called now would return the secret of r
Retrievable(r) ==
  /\ ~NoWrappedSecret(r)
  /\ WrappingKeyAtHand # Null
  /\ ~Undecryptable(r, WrappingKeyAtHand)

\* C1: within one session getWrappingKey of the memory draft returns one and
\* the same key to every caller, overlapping callers included
C1_SingleWrappingKey ==
  variant = "memory" => Cardinality(returned) <= 1

\* C2: a getSecretKey(fp) that follows a resolved storeKey(fp, ..., s) in the
\* same session, with no storeKey(fp) or deleteKey(fp) in between, returns s
C2_RoundTrip ==
  (/\ variant = "memory"
   /\ settled.op = "getSecretKey"
   /\ settled.expect.t = "secret"
   /\ settled.expect.s # Null)
  => settled.result = settled.expect.s

\* the call that settled last is a getSecretKey that found a wrapped secret
\* made with the key of an earlier session
ReadEarlierSession ==
  /\ settled.op = "getSecretKey"
  /\ ~NoWrappedSecret(settled.record)
  /\ IsBase64(settled.record.encryptedSecretKey)
  /\ Atob(settled.record.encryptedSecretKey).k.session < session

\* C3: getSecretKey returns 'no secret' for every record whose secret was
\* wrapped in an earlier session
C3_SessionBound == ReadEarlierSession => settled.result = Null

C3_Witness == ReadEarlierSession /\ settled.result = Null

\* C4: the wrapping key is never serialized to a storage medium and every
\* key object is non-extractable
C4_NeverSerialized ==
  /\ sessionStorage = Null
  /\ \A k \in KeyObjects : ~k.extractable

\* some step of a getSecretKey call: it is called, or it moves on
GetSecretKeyStep ==
  \E c \in Calls :
    \/ calls[c].op = "idle" /\ calls'[c].op = "getSecretKey"
    \/ calls[c].op = "getSecretKey" /\ calls'[c].pc # calls[c].pc

\* the call that settled last is a getSecretKey whose decryption failed
ReadUndecryptable ==
  /\ settled.op = "getSecretKey"
  /\ ~NoWrappedSecret(settled.record)
  /\ Undecryptable(settled.record, settled.key)

\* C5: getSecretKey never throws; when the stored ciphertext or nonce cannot
\* be decrypted under the current wrapping key it returns null, and no step
\* of getSecretKey changes a stored record
C5_UnwrapNeverThrows ==
  /\ [](settled.op = "getSecretKey" => ~settled.threw)
  /\ [](ReadUndecryptable => settled.result = Null)
  /\ [][GetSecretKeyStep => db' = db]_vars

C5_Witness ==
  /\ ReadUndecryptable
  /\ ~Atob(settled.record.encryptedSecretKey).intact
  /\ settled.result = Null
  /\ settled.record \in db

\* C6: a stored record is an own key exactly when it holds a wrapped secret
\* (ciphertext and nonce both present)
C6_OwnFlagAgrees ==
  \A r \in db : r.isOwn <=> (r.encryptedSecretKey # Null /\ r.iv # Null)

\* the put of a handleImport commits in this step
ImportPutStep(fp) ==
  \E c \in Calls : /\ calls[c].caller = "handleImport"
                   /\ calls[c].fingerprint = fp
                   /\ calls[c].pc = "put"
                   /\ calls'[c].pc = "refresh"

\* C7: importing a fingerprint that is stored as an own key leaves it an own
\* key with its wrapped secret
C7_NoDowngrade ==
  [][\A fp \in Fingerprints :
       (variant = "memory" /\ ImportPutStep(fp) /\ Get(db, fp) # Null /\ Get(db, fp).isOwn)
       => (Get(db', fp).isOwn /\ ~NoWrappedSecret(Get(db', fp)))]_vars

\* C8: after two overlapping storeKey calls for one fingerprint have both
\* resolved, the record is the one written by one of them, and it is an own
\* key with a retrievable secret if either call carried a secret
C8_OverlapSerialized ==
  \A fp \in Fingerprints :
    LET g == hist[fp].group
    IN  (variant = "memory" /\ g.n = 2 /\ g.resolved = 2 /\ g.clean)
        => /\ Get(db, fp) \in g.written
           /\ g.anySecret => (Get(db, fp).isOwn /\ Retrievable(Get(db, fp)))

\* C9: a getKey, getSecretKey or listKeys started after deleteKey(fp) resolved,
\* with no storeKey(fp) issued after the delete, does not find fp
C9_DeletedStaysAbsent ==
  variant = "memory" =>
  /\ (settled.op \in {"getKey", "getSecretKey"} /\ settled.fingerprint \in settled.absent)
     => settled.result = Null
  /\ settled.op = "listKeys"
     => \A i \in 1..Len(settled.result.items) :
          settled.result.items[i].fingerprint \notin settled.absent

\* C10: after any sequence of storeKey and deleteKey calls the keystore holds
\* at most one record per fingerprint (a wrapped secret is a field of that
\* record, so it has no existence apart from it)
C10_OneRecordPerFingerprint ==
  \A r1, r2 \in db : r1.fingerprint = r2.fingerprint => r1 = r2

C10_Witness ==
  \E fp \in Fingerprints : hist[fp].puts >= 2 /\ Get(db, fp) # Null

\* the deleteKey call in slot c settles in this step
DeleteKeySettles(c) ==
  /\ calls[c].op = "deleteKey"
  /\ calls'[c].op = "idle"
  /\ settled'.op = "deleteKey"

\* C11: deleteKey is idempotent.  Whenever a deleteKey(fp) settles, also for
\* a fingerprint that has no record (never stored, or deleted before), the
\* call resolves without an error, no record of fp is left, and the records
\* of every other fingerprint are exactly those stored before the step.
C11_DeleteIdempotent ==
  [][\A c \in Calls :
       DeleteKeySettles(c) =>
         LET fp == calls[c].fingerprint
         IN  /\ ~settled'.threw
             /\ Get(db', fp) = Null
             /\ {r \in db' : r.fingerprint # fp} = {r \in db : r.fingerprint # fp}]_vars

\* a deleteKey has settled for a fingerprint that was never stored, while a
\* record of another fingerprint is in the store
C11_Witness ==
  /\ settled.op = "deleteKey"
  /\ ~settled.threw
  /\ hist[settled.fingerprint].puts = 0
  /\ \E r \in db : r.fingerprint # settled.fingerprint

\* ------------------------------------------------ sync-bundle scanning
\* the parts this scan has accepted so far
AcceptedParts == {ParseKcpgpPart(c) : c \in delivered} \ {Null}

\* two parts accepted in this scan declare different totals
InconsistentTotals == \E p, q \in AcceptedParts : p.total # q.total

\* C12: once a scan has received a part whose declared total differs from
\* the total of a part accepted earlier in the same scan, the scan is over
\* with an inconsistent-bundle error and has produced no reassembled data.
C12_InconsistentBundleAborts ==
  InconsistentTotals =>
    /\ ~scanning
    /\ error \notin {Null, NotSyncQr}
    /\ ~produced

\* C13: a scan whose accepted parts agree on the total produces reassembled
\* data only when the collected part numbers are exactly 1..total; a number
\* outside 1..total never counts toward completion.
C13_CompleteOnlyWithAllParts ==
  (produced /\ ~InconsistentTotals) => MapKeys(scannedParts) = 1..totalParts

\* the bundles all of whose codes, and no other code, this scan was handed
BundlesDelivered == {b \in Bundles : delivered \ PassContents = BundleContents(b)}

\* C14: reassembly depends only on the set of parts delivered.  A scan that
\* was handed the parts of one bundle, in any order and any part any number
\* of times, ends with the part data concatenated in ascending part number,
\* as forward-order delivery gives.
C14_OrderInvariant ==
  \A b \in Bundles :
    /\ (produced /\ delivered \ PassContents \subseteq BundleContents(b))
         => encryptedData = Envelope(b)
    /\ b \in BundlesDelivered => (produced /\ encryptedData = Envelope(b))

\* a three-part bundle reassembled from four codes (one part was handed in
\* twice) that arrived in an order other than ascending
C14_Witness ==
  /\ produced
  /\ nscans = MaxScans
  /\ delivered = BundleContents(<<<<"c">>, <<"d">>, <<"e">>>>)
  /\ scannedParts # SortedEntries(scannedParts)

\* a decimal numeral without leading zeros
IsCanonicalNumeral(s) ==
  /\ s # <<>>
  /\ \A i \in 1..Len(s) : IsDigit(s[i])
  /\ Head(s) # "0"

\* content has the form KCPGP:<part>/<total>:<data>, 1 <= part <= total
WellFormedPart(content) ==
  /\ StartsWith(content, KCPGP)
  /\ LET rest == Slice(content, 6)
     IN  \E i, j \in 1..Len(rest) :
           /\ i < j
           /\ rest[i] = "/"
           /\ rest[j] = ":"
           /\ IsCanonicalNumeral(SubSeq(rest, 1, i - 1))
           /\ IsCanonicalNumeral(SubSeq(rest, i + 1, j - 1))
           /\ LET part == DigitsPrefix(SubSeq(rest, 1, i - 1), 0)
                  total == DigitsPrefix(SubSeq(rest, i + 1, j - 1), 0)
              IN  1 <= part /\ part <= total

\* C15: parseKcpgpPart accepts a string exactly when it has the form
\* KCPGP:<part>/<total>:<data> with part and total decimal integers without
\* leading zeros and 1 <= part <= total; for every other string it returns
\* null.
C15_ParseAcceptsExactlyParts ==
  lastScan # NoScan =>
    (lastScan.part # Null <=> WellFormedPart(lastScan.content))

\* ------------------------------------------------------ DecryptView
\* the time at which the keystore record of fp was inserted
InsertedAt(fp) == Get(db, fp).addedAt

\* handleDecrypt has returned
DecryptReturned == decryptPc = "idle" /\ ~ciphertext.blank

\* C16: decrypt tries the candidate secret keys in the order in which they
\* were inserted into the keystore, stops at the first candidate that
\* succeeds and returns its plaintext, and reports a failure only when
\* every candidate has failed.
C16_InsertionOrder ==
  /\ \A i, j \in 1..Len(tried) : i < j => InsertedAt(tried[i]) < InsertedAt(tried[j])
  /\ (DecryptReturned /\ output # Null) =>
        /\ output = Plaintext(ciphertext)
        /\ \A i \in 1..(Len(unwrapped) - 1) : Decrypt(ciphertext, unwrapped[i].secret).threw
  /\ (DecryptReturned /\ decryptError = "decrypt_error_failed") =>
        /\ tried = [i \in 1..Len(ownKeys) |-> ownKeys[i].fingerprint]
        /\ \A i \in 1..Len(unwrapped) : Decrypt(ciphertext, unwrapped[i].secret).threw

\* C17: every secret-key buffer that handleDecrypt obtained is zero-filled
\* once the attempt that used it is over: when handleDecrypt has returned,
\* on success and on failure alike, and when the loop has moved on to the
\* next key.
C17_SecretsReleased ==
  \A i \in 1..Len(unwrapped) :
    (decryptPc = "idle" \/ i < Len(unwrapped)) => unwrapped[i].zeroed

\* ------------------------------------------------------------ OPSEC
\* C18: while OPSEC mode is enabled no command writes to a persistent
\* medium: key metadata, secret material and settings written in that time
\* stay in memory only.
C18_OpsecNoDiskWrites == opsecWrites = {}

\* -------------------------------------------------- fingerprint ingress
\* a non-empty string over 0-9 and A-F
ValidFingerprint(fp) ==
  /\ fp # <<>>
  /\ \A i \in 1..Len(fp) : IsDigit(fp[i]) \/ fp[i] \in {"A", "B", "C", "D", "E", "F"}

\* C19: every fingerprint that reaches a store operation or a secrets-file
\* path is a non-empty string over 0-9 and A-F; any other fingerprint is
\* rejected with the InvalidIdentifier error value, not a panic, before a
\* path is composed or a record is written.
C19_FingerprintValidated ==
  /\ \A r \in db : ValidFingerprint(r.fingerprint)
  /\ \A p \in composed : \E fp \in IngressFingerprints :
        ValidFingerprint(fp) /\ p = SecretKeyPath(fp).path
  /\ (ingress.op # "none" /\ ingress.pc = "done" /\ ~ValidFingerprint(ingress.fingerprint))
        => ingress.outcome = "InvalidIdentifier"

\* ------------------------------------------------------ PassphraseCache
\* C20: the passphrase cache is self-pruning.  A get(fingerprint) that
\* observes an entry whose TTL has elapsed returns absent and removes the
\* entry in the same call: right after it the cache holds no passphrase
\* for that fingerprint.
C20_SelfPruning ==
  (cacheOp.op = "get" /\ cacheOp.expired) =>
    /\ cacheOp.result = Null
    /\ cacheOp.fingerprint \notin DOMAIN entries

\* a get has just observed an expired entry, while an entry of the other
\* key is still cached
C20_Witness ==
  /\ cacheOp.op = "get"
  /\ cacheOp.expired
  /\ cacheOp.result = Null
  /\ DOMAIN entries # {}

\* C21: changing the TTL affects only entries inserted afterwards.  An
\* entry found by get is reported absent exactly when the TTL that was in
\* force at its insertion has elapsed since then, whatever the TTL is now.
C21_TtlAtInsertion ==
  (cacheOp.op = "get" /\ cacheOp.found) => (cacheOp.result = Null <=> cacheOp.due)

\* C22: transfer-passphrase generation has no modulo bias: with the rule
\* "discard a 16-bit value >= 60000, else reduce it modulo 10000" the group
\* value just produced has as many accepted 16-bit preimages as every other
\* group value (six: g, g + 10000, ..., g + 50000), it is written as four
\* digits, and a finished passphrase is nine groups joined by single hyphens.
Preimages(g) ==
  {w \in {g + GroupModulus * k : k \in 0..(65535 \div GroupModulus)} :
     w \in U16 /\ Accepted(w)}

ScheduledDelay ==
  IF \E t \in timeouts : t.id = lastSchedule.timer
  THEN (CHOOSE t \in timeouts : t.id = lastSchedule.timer).delaySecs
  ELSE -1

JustScheduled ==
  /\ lastSchedule.called
  /\ lastSchedule.timer # NoTimer
  /\ \E t \in timeouts : t.id = lastSchedule.timer /\ t.remaining = t.delaySecs

C23_OpsecForcesTenSeconds ==
  lastSchedule.called =>
    /\ lastSchedule.isOpsec =>
         /\ lastSchedule.timer # NoTimer
         /\ JustScheduled => ScheduledDelay = 10
    /\ ~lastSchedule.isOpsec =>
         /\ lastSchedule.timer # NoTimer <=> lastSchedule.enabled
         /\ JustScheduled => ScheduledDelay = lastSchedule.delay_secs

\* OPSEC mode on, auto-clear switched off and a delay of 5 seconds chosen:
\* the call has set a timer of 10 seconds
C23_Witness ==
  /\ JustScheduled
  /\ lastSchedule.isOpsec
  /\ ~lastSchedule.enabled
  /\ lastSchedule.delay_secs = 5
  /\ ScheduledDelay = 10

\* C29: once scheduleAutoClear has set a clear timer, clearClipboard is
\* eventually invoked, whatever calls and changes of settings follow.
C29_EventuallyCleared ==
  (lastSchedule.timer # NoTimer /\ ~clearInvoked) ~> clearInvoked

\* C29, second half: at most one clear timer is set at any time
C29_OneTimerPending == Cardinality(timeouts) <= 1

\* C24: in OPSEC mode with opsec_view_timeout_secs = T > 0 the decrypted
\* viewer closes itself after T one-second ticks unless it was closed
\* earlier, its countdown does not run once the viewer is destroyed, and the
\* countdown closes only the opening it was started for: a modal it closes
\* has been open for T ticks.
C24_ViewerCountdown ==
  /\ (viewer.mounted /\ viewer.isOpsec /\ viewer.viewTimeout > 0) =>
       /\ viewer.timerId
       /\ viewer.countdown = viewer.viewTimeout - viewer.ticks
       /\ viewer.countdown >= 1
  /\ ~viewer.mounted => ~viewer.timerId
  /\ viewer.mounted <=> activeModal = "decrypted-viewer"
  /\ lastClose.by = "countdown" => lastClose.sinceOpen = lastClose.viewTimeout

\* C25: at most one QR scanner runs at any time: every scanner except possibly
\* the one started last has been stopped and destroyed, and activeScanner is
\* null or the scanner started last.
C25_SingleScanner ==
  /\ \A id \in ScannerIds :
       (scanners[id].created /\ id # nScanners) =>
         (scanners[id].stopped /\ scanners[id].destroyed)
  /\ activeScanner \in {NoScanner, nScanners}
  /\ activeScanner # NoScanner =>
       (~scanners[activeScanner].stopped /\ ~scanners[activeScanner].destroyed)

\* the third scanner runs with its camera open, the two started before it
\* are destroyed
C25_Witness ==
  /\ nScanners = 3
  /\ activeScanner = 3
  /\ ~scanners[3].stopped
  /\ scanners[1].destroyed /\ scanners[2].destroyed
  /\ scanners[3].start = "resolved"

\* C26: after a scan has captured the bundle data and the passphrase the
\* automatic import is attempted at most once, and never while a scan or an
\* import is in progress: between two actions of the user the $effect calls
\* handleImport no more than once, so a failed automatic import is not
\* retried on its own.
C26_AutoImportOnce ==
  /\ autoAttempts <= 1
  /\ lastAuto.fired => (~lastAuto.scanning /\ ~lastAuto.importing)

\* C27: the opsec_mode setting of the frontend and the OPSEC mode of the
\* backend agree whenever no toggle is in progress, whether the backend call
\* of the last toggle succeeded or failed, and the setting is never true
\* while the backend mode has not been enabled.
C27_OpsecAgreement ==
  /\ toggling.at = "idle" => (settings.opsec_mode <=> opsecEnabled)
  /\ settings.opsec_mode => opsecEnabled

\* C28: every action given to dispatchAction is consumed exactly once: the
\* handlers that ran are the dispatched actions in their order, up to an
\* action that is still pending, and none is handled twice or lost.
C28_DispatchedOnce ==
  /\ pendingAction = NoAction => handled = dispatched
  /\ pendingAction # NoAction =>
       /\ dispatched # <<>>
       /\ pendingAction = dispatched[Len(dispatched)]
       /\ handled = SubSeq(dispatched, 1, Len(dispatched) - 1)

\* C30: toggleSelfKey(fp) flips whether fp belongs to the effective
\* encrypt-to-self set and leaves the membership of every other own key as
\* it was, the empty stored list standing for all own keys, for every
\* starting selection.
C30_ToggleFlipsOne ==
  lastSelfToggle.called =>
    \A k \in lastSelfToggle.own :
      (k \in SelfSelection(encrypt_to_self_keys, storeOwnKeys)) <=>
        (IF k = lastSelfToggle.fp
         THEN k \notin lastSelfToggle.before
         ELSE k \in lastSelfToggle.before)

====
